---------------------------- MODULE Spec2Model ----------------------------
(***************************************************************************)
(* Planning engine of the FDRS scheduler: ConstraintManager (anti-affinity *)
(* grouping, violation detection, target selection), LoadEvaluator         *)
(* (percentages, imbalance), MigrationManager (single pass and iterative   *)
(* planning).                                                              *)
(*                                                                         *)
(* Conventions.                                                            *)
(*  - A host is identified by a number i standing for the host named       *)
(*    "H<i>"; i < j is the lexicographic order of the names.               *)
(*  - A VM is identified by its name, a sequence of one-character strings. *)
(*  - A percentage is held in hundredths of a percent ("centi-percent"),   *)
(*    so 90 % is 9000; the inputs are chosen so that usage/capacity*100    *)
(*    has at most two decimals and the arithmetic is exact.                *)
(***************************************************************************)
EXTENDS Integers, Sequences, FiniteSets, TLC

VARIABLES
    hosts,                  \* cluster_state.hosts: active hosts, snapshot order
    vms,                    \* cluster_state.vms: active VMs, snapshot order
    vm_host,                \* vm.runtime.host of every VM
    vm_metrics,             \* cluster_state.vm_metrics (absent key: no metrics)
    host_metrics,           \* cluster_state.host_metrics
    aggressiveness,         \* MigrationManager.aggressiveness
    max_total_migrations,   \* MigrationManager.max_total_migrations
    ignore_anti_affinity,   \* MigrationManager.ignore_anti_affinity
    anti_affinity_only,     \* MigrationManager.anti_affinity_only
    arg_anti_affinity_only, \* the anti_affinity_only argument of the planning call
    max_iterations,         \* the max_iterations argument of plan_migrations_iterative
    vm_distribution,        \* ConstraintManager.vm_distribution
    violations,             \* ConstraintManager.violations
    pc,                     \* position of the run: start, applied, iterating, done
    aa_planned,             \* the last pass's anti-affinity moves, untruncated
    bal_planned,            \* the last pass's balancing moves, untruncated
    migrations,             \* the last pass's plan after truncation (with reasons)
    pass_aggressiveness,    \* self.aggressiveness while the last pass ran (0: no pass yet)
    iteration,              \* passes of the iterative loop run so far
    all_migrations,         \* the iterative loop's accumulated plan
    outcome,                \* how the run returned: none, single, converged, no_moves, exhausted
    run,                    \* number of the program run on this inventory
    prev_plan,              \* the plan returned by the previous run
    inv_hosts,              \* the HostSystem objects the container view returns
    inv_vms,                \* the VirtualMachine objects the container view returns
    cluster_name,           \* ClusterState.cluster_name ("" when not given)
    imbalance,              \* the report evaluate_imbalance returned to main (<<>>: none yet)
    _cache_percentage_lists \* LoadEvaluator._cache_percentage_lists (<<>>: None)

snapshot == <<hosts, vms, vm_host, vm_metrics, host_metrics>>
config == <<aggressiveness, max_total_migrations, ignore_anti_affinity,
            anti_affinity_only, arg_anti_affinity_only, max_iterations>>
cmstate == <<vm_distribution, violations>>
passvars == <<aa_planned, bal_planned, migrations, pass_aggressiveness>>
itervars == <<iteration, all_migrations>>
inventory == <<inv_hosts, inv_vms, cluster_name>>
vars == <<snapshot, config, cmstate, passvars, itervars, pc, outcome, run, prev_plan,
          inventory, imbalance, _cache_percentage_lists>>

(***************************************************************************)
(* Bounds of the model.                                                    *)
(***************************************************************************)
NumHosts == 3
NumVMs == 4
MaxCap == 2
MaxIter == 3
MaxRuns == 2

(***************************************************************************)
(* Generic helpers.                                                        *)
(***************************************************************************)
Range(s) == {s[i] : i \in 1..Len(s)}

RECURSIVE SumOver(_, _)
SumOver(f, S) ==
    IF S = {} THEN 0
    ELSE LET x == CHOOSE y \in S : TRUE IN f[x] + SumOver(f, S \ {x})

RECURSIVE SeqSum(_)
SeqSum(s) == IF s = <<>> THEN 0 ELSE s[1] + SeqSum(Tail(s))

SetMax(S) == CHOOSE x \in S : \A y \in S : y <= x
SetMin(S) == CHOOSE x \in S : \A y \in S : x <= y
Max2(a, b) == IF a >= b THEN a ELSE b

\* The orderings of a finite set as sequences (the orders a Python set of
\* objects may be enumerated in).
Orderings(S) ==
    {s \in [1..Cardinality(S) -> S] : \A i, j \in 1..Cardinality(S) : i # j => s[i] # s[j]}

RECURSIVE Tabulate(_, _)
\* the function f on S with its values computed once (f itself, as a table)
Tabulate(f, S) ==
    IF S = {} THEN <<>>
    ELSE LET x == CHOOSE y \in S : TRUE IN (x :> f[x]) @@ Tabulate(f, S \ {x})

RECURSIVE SelectSeq2(_, _)
\* the subsequence of s of the elements in set S
SelectSeq2(s, S) ==
    IF s = <<>> THEN <<>>
    ELSE IF s[1] \in S THEN <<s[1]>> \o SelectSeq2(Tail(s), S)
    ELSE SelectSeq2(Tail(s), S)

(***************************************************************************)
(* ClusterState accessors.                                                 *)
(***************************************************************************)
ActiveHosts == Range(hosts)

\* get_host_of_vm: the VM's runtime host (which need not be an active host)
get_host_of_vm(vm) == vm_host[vm]

\* get_vms_on_host: the VMs of the snapshot running on the host, in vms order
get_vms_on_host(h) == SelectSeq2(vms, {v \in Range(vms) : vm_host[v] = h})

\* vm_metrics.get(vm.name, {}) is empty
NoVmMetrics(vm) == vm \notin DOMAIN vm_metrics

\* vm_metrics.get(vm.name, {}).get(key, 0)
VmMetric(vm, key) == IF vm \in DOMAIN vm_metrics THEN vm_metrics[vm][key] ELSE 0

(***************************************************************************)
(* ConstraintManager.                                                      *)
(***************************************************************************)
Digits == {"0", "1", "2", "3", "4", "5", "6", "7", "8", "9"}

RECURSIVE RStripDigits(_)
\* vm_name.rstrip('0123456789')
RStripDigits(name) ==
    IF name = <<>> THEN <<>>
    ELSE IF name[Len(name)] \in Digits THEN RStripDigits(SubSeq(name, 1, Len(name) - 1))
    ELSE name

\* vm_name.rstrip('0123456789') or vm_name
_get_vm_prefix(name) ==
    LET p == RStripDigits(name) IN IF p = <<>> THEN name ELSE p

\* enforce_anti_affinity: the VMs grouped by prefix, each group in vms order
enforce_anti_affinity ==
    LET named == {v \in Range(vms) : Len(v) >= 1}
        keys == {_get_vm_prefix(v) : v \in named}
    IN [k \in keys |-> SelectSeq2(vms, {v \in named : _get_vm_prefix(v) = k})]

\* host_vm_counts of a group: per active host, the group's VMs placed on it
HostGroupCounts(group) ==
    Tabulate([h \in ActiveHosts |->
                Cardinality({v \in Range(group) : get_host_of_vm(v) = h})], ActiveHosts)

Spread(counts) ==
    SetMax({counts[h] : h \in DOMAIN counts}) - SetMin({counts[h] : h \in DOMAIN counts})

\* a faulty variant of GroupViolations: the minimum is taken over the hosts that
\* hold a VM of the group only
GroupViolationsOccupiedHosts(group) ==
    LET counts == HostGroupCounts(group)
        onHosts == {v \in Range(group) : get_host_of_vm(v) \in ActiveHosts}
        occupied == {counts[h] : h \in {get_host_of_vm(v) : v \in onHosts}}
    IN IF onHosts = {} THEN {}
       ELSE IF SetMax(occupied) - SetMin(occupied) > 1
            THEN {v \in onHosts : counts[get_host_of_vm(v)] = SetMax(occupied)}
            ELSE {}

\* the violators of one group: the VMs on the hosts holding max_count, when
\* max_count - min_count > 1
GroupViolations(group) ==
    LET counts == HostGroupCounts(group)
        onHosts == {v \in Range(group) : get_host_of_vm(v) \in ActiveHosts}
        max_count == SetMax({counts[h] : h \in ActiveHosts})
    IN IF onHosts = {} THEN {}
       ELSE IF Spread(counts) > 1
            THEN {v \in onHosts : counts[get_host_of_vm(v)] = max_count}
            ELSE {}

\* calculate_anti_affinity_violations: set(all_violations); the caller receives
\* list(set(...)), an enumeration of this set in an order the code does not fix
calculate_anti_affinity_violations(dist) ==
    IF Len(hosts) <= 1 THEN {}
    ELSE UNION {GroupViolations(dist[k]) : k \in DOMAIN dist}


NoHost == 0   \* Python None for a host

\* a planned move: {'vm': ..., 'target_host': ..., 'reason': ...}
Move(vm, target, reason) == [vm |-> vm, target_host |-> target, reason |-> reason]

RECURSIVE AdjustCountsTwiceOff(_, _, _)
\* a faulty variant of AdjustCounts: a planned move takes two from the count of
\* the VM's current host
AdjustCountsTwiceOff(counts, planned, vm_prefix) ==
    IF planned = <<>> THEN counts
    ELSE LET plan == planned[1]
             orig == get_host_of_vm(plan.vm)
             c1 == IF orig \in DOMAIN counts
                   THEN [counts EXCEPT ![orig] = @ - 2] ELSE counts
             c2 == IF plan.target_host \in DOMAIN c1
                   THEN [c1 EXCEPT ![plan.target_host] = @ + 1] ELSE c1
             c3 == IF orig \in DOMAIN c2 /\ c2[orig] < 0
                   THEN [c2 EXCEPT ![orig] = 0] ELSE c2
         IN IF _get_vm_prefix(plan.vm) = vm_prefix
            THEN AdjustCountsTwiceOff(c3, Tail(planned), vm_prefix)
            ELSE AdjustCountsTwiceOff(counts, Tail(planned), vm_prefix)

RECURSIVE AdjustCounts(_, _, _)
\* get_preferred_host_for_vm, the loop over planned_migrations_this_cycle: each
\* planned move of a VM of the group decrements the count of the VM's current
\* host, increments the count of its target, and clamps the former at 0
AdjustCounts(counts, planned, vm_prefix) ==
    IF planned = <<>> THEN counts
    ELSE LET plan == planned[1]
             orig == get_host_of_vm(plan.vm)
             c1 == IF orig \in DOMAIN counts
                   THEN [counts EXCEPT ![orig] = @ - 1] ELSE counts
             c2 == IF plan.target_host \in DOMAIN c1
                   THEN [c1 EXCEPT ![plan.target_host] = @ + 1] ELSE c1
             c3 == IF orig \in DOMAIN c2 /\ c2[orig] < 0
                   THEN [c2 EXCEPT ![orig] = 0] ELSE c2
         IN IF _get_vm_prefix(plan.vm) = vm_prefix
            THEN AdjustCounts(c3, Tail(planned), vm_prefix)
            ELSE AdjustCounts(counts, Tail(planned), vm_prefix)

\* the simulated counts of _find_perfect_balance_host over the active hosts
SimulatedMoveCounts(counts, source, target) ==
    Tabulate([h \in DOMAIN counts |->
                IF h = target THEN (IF h = source THEN counts[h] - 1 ELSE counts[h]) + 1
                ELSE IF h = source THEN counts[h] - 1
                ELSE counts[h]], DOMAIN counts)

RECURSIVE LowestCountHost(_, _, _, _)
\* the selection loop shared by both stages: lowest count first, then the
\* lexicographically smaller host name
LowestCountHost(cands, counts, best, lowest) ==
    IF cands = <<>> THEN best
    ELSE LET c == cands[1]
             n == counts[c]
         IN IF best = NoHost \/ n < lowest
            THEN LowestCountHost(Tail(cands), counts, c, n)
            ELSE IF n = lowest /\ c < best
                 THEN LowestCountHost(Tail(cands), counts, c, lowest)
                 ELSE LowestCountHost(Tail(cands), counts, best, lowest)

\* a faulty variant of PerfectBalanceCandidates: the source host is not skipped
PerfectBalanceCandidatesWithSource(counts, source) ==
    SelectSeq2(hosts, {t \in ActiveHosts :
        Spread(SimulatedMoveCounts(counts, source, t)) <= 1})

\* the candidates of the perfect-balance stage, in active_hosts order
PerfectBalanceCandidates(counts, source) ==
    SelectSeq2(hosts, {t \in ActiveHosts :
        t # source /\ Spread(SimulatedMoveCounts(counts, source, t)) <= 1})

_find_perfect_balance_host(counts, source) ==
    LowestCountHost(PerfectBalanceCandidates(counts, source), counts, NoHost, 0)

\* the candidates of the better-than-source stage, in active_hosts order
BetterThanSourceCandidates(counts, source, source_count) ==
    SelectSeq2(hosts, {t \in ActiveHosts : t # source /\ counts[t] < source_count})

_find_better_than_source_host(counts, source, source_count) ==
    LowestCountHost(BetterThanSourceCandidates(counts, source, source_count),
                    counts, NoHost, 0)

\* a faulty variant of get_preferred_host_for_vm: the guard on the length of
\* the name is missing
PreferredHostWithoutLengthGuard(vm, planned) ==
    LET vm_prefix == _get_vm_prefix(vm)
        source == get_host_of_vm(vm)
        base == HostGroupCounts(vm_distribution[vm_prefix])
        adjusted == AdjustCounts(base, planned, vm_prefix)
        perfect == _find_perfect_balance_host(adjusted, source)
        source_count == IF source \in DOMAIN adjusted THEN adjusted[source] ELSE 0
    IN IF vm_prefix \notin DOMAIN vm_distribution THEN NoHost
       ELSE IF Len(hosts) <= 1 THEN NoHost
       ELSE IF perfect # NoHost THEN perfect
       ELSE _find_better_than_source_host(adjusted, source, source_count)

\* get_preferred_host_for_vm(vm_to_move, planned_migrations_this_cycle)
get_preferred_host_for_vm(vm, planned) ==
    LET vm_prefix == _get_vm_prefix(vm)
        source == get_host_of_vm(vm)
        base == HostGroupCounts(vm_distribution[vm_prefix])
        adjusted == AdjustCounts(base, planned, vm_prefix)
        perfect == _find_perfect_balance_host(adjusted, source)
        source_count == IF source \in DOMAIN adjusted THEN adjusted[source] ELSE 0
    IN IF Len(vm) < 3 THEN NoHost
       ELSE IF vm_prefix \notin DOMAIN vm_distribution THEN NoHost
       ELSE IF Len(hosts) <= 1 THEN NoHost
       ELSE IF perfect # NoHost THEN perfect
       ELSE _find_better_than_source_host(adjusted, source, source_count)

(***************************************************************************)
(* LoadEvaluator.                                                          *)
(***************************************************************************)
ResourceOrder == <<"cpu", "memory", "disk", "network">>

\* usage / capacity * 100.0 if capacity > 0 else 0.0, in centi-percent
Pct(usage, capacity) == IF capacity > 0 THEN (usage * 10000) \div capacity ELSE 0

\* round(total / n, 2) of a centi-percent total: nearest, halves to even
RoundDiv(total, n) ==
    LET q == total \div n
        r == total % n
    IN IF 2 * r > n THEN q + 1
       ELSE IF 2 * r < n THEN q
       ELSE IF q % 2 = 0 THEN q ELSE q + 1

\* get_all_host_resource_percentages_map: host -> the four percentages
get_all_host_resource_percentages_map ==
    Tabulate([h \in ActiveHosts |->
        [cpu |-> Pct(host_metrics[h].cpu_usage, host_metrics[h].cpu_capacity),
         memory |-> Pct(host_metrics[h].memory_usage, host_metrics[h].memory_capacity),
         disk |-> Pct(host_metrics[h].disk_io_usage, host_metrics[h].disk_io_capacity),
         network |-> Pct(host_metrics[h].network_io_usage, host_metrics[h].network_capacity)]],
        ActiveHosts)

\* self._cache_percentage_lists = None
NoCache == <<>>

\* get_resource_percentage_lists: the memoized quartet when there is one, the
\* quartet computed from the host data otherwise (and then memoized)
get_resource_percentage_lists ==
    IF _cache_percentage_lists # NoCache THEN _cache_percentage_lists
    ELSE get_all_host_resource_percentages_map

\* the cache once plan_migrations has run: cleared at the start of the cycle,
\* filled again when the balancing phase fetches the map
CacheAfterPass(aa_only_arg) ==
    IF aa_only_arg THEN NoCache ELSE get_all_host_resource_percentages_map

\* the percentage list of one resource, in host order, read off a load map
PercentageList(load_map, res) ==
    Tabulate([i \in 1..Len(hosts) |-> load_map[hosts[i]][res]], 1..Len(hosts))

\* a faulty variant of get_thresholds: every difference counts as an imbalance
ThresholdsIgnored(aggr) == 0

\* get_thresholds(aggressiveness), the same value for the four resources
get_thresholds(aggr) ==
    CASE aggr = 5 -> 500
      [] aggr = 4 -> 1000
      [] aggr = 3 -> 1500
      [] aggr = 2 -> 2000
      [] aggr = 1 -> 2500
      [] OTHER -> 1500

\* a faulty variant of evaluate_imbalance: a difference equal to the threshold
\* counts as an imbalance
EvaluateImbalanceNonStrict(load_map, aggr) ==
    Tabulate([res \in Range(ResourceOrder) |->
        LET percentages == PercentageList(load_map, res)
            diff == SetMax(Range(percentages)) - SetMin(Range(percentages))
        IN [is_imbalanced |-> Len(percentages) >= 2 /\ diff >= get_thresholds(aggr),
            current_diff |-> IF Len(percentages) < 2 THEN 0 ELSE diff,
            threshold |-> get_thresholds(aggr),
            min_usage |-> 0, max_usage |-> 0, avg_usage |-> 0]],
        Range(ResourceOrder))

\* evaluate_imbalance on the percentage lists read off load_map
evaluate_imbalance(load_map, aggr) ==
    Tabulate([res \in Range(ResourceOrder) |->
        LET percentages == PercentageList(load_map, res)
            threshold == get_thresholds(aggr)
            lo == SetMin(Range(percentages))
            hi == SetMax(Range(percentages))
        IN IF Len(percentages) < 2
           THEN [is_imbalanced |-> FALSE, current_diff |-> 0, threshold |-> threshold,
                 min_usage |-> 0, max_usage |-> 0, avg_usage |-> 0]
           ELSE [is_imbalanced |-> hi - lo > threshold,
                 current_diff |-> hi - lo,
                 threshold |-> threshold,
                 min_usage |-> lo,
                 max_usage |-> hi,
                 avg_usage |-> RoundDiv(SeqSum(percentages), Len(percentages))]],
        Range(ResourceOrder))

\* is_balanced: no reported resource is imbalanced
is_balanced(load_map, aggr) ==
    \A res \in Range(ResourceOrder) : ~evaluate_imbalance(load_map, aggr)[res].is_imbalanced

(***************************************************************************)
(* MigrationManager: simulation and admission checks.                     *)
(***************************************************************************)
\* host_metrics.get(host.name, {}).get(key, default)
HostMetricGet(h, key, default) ==
    IF key \in DOMAIN host_metrics[h] THEN host_metrics[h][key] ELSE default

RECURSIVE SimulateAbsoluteLoadsAddOnly(_, _)
\* a faulty variant of SimulateAbsoluteLoads: the moved VM's usage arrives on the
\* target and is not taken from the source
SimulateAbsoluteLoadsAddOnly(loads, migs) ==
    IF migs = <<>> THEN loads
    ELSE LET vm == migs[1].vm
             target == migs[1].target_host
             cpu == VmMetric(vm, "cpu_usage_abs")
             mem == VmMetric(vm, "memory_usage_abs")
             l2 == IF target \in DOMAIN loads
                   THEN [loads EXCEPT ![target].cpu_usage_abs = @ + cpu,
                                      ![target].mem_usage_abs = @ + mem]
                   ELSE loads
         IN SimulateAbsoluteLoadsAddOnly(l2, Tail(migs))

RECURSIVE SimulateAbsoluteLoads(_, _)
\* _get_simulated_load_data_after_migrations, the loop over the moves: the moved
\* VM's CPU and memory leave its current host and arrive on its target
SimulateAbsoluteLoads(loads, migs) ==
    IF migs = <<>> THEN loads
    ELSE LET vm == migs[1].vm
             target == migs[1].target_host
             source == get_host_of_vm(vm)
             cpu == VmMetric(vm, "cpu_usage_abs")
             mem == VmMetric(vm, "memory_usage_abs")
             l1 == IF source \in DOMAIN loads
                   THEN [loads EXCEPT ![source].cpu_usage_abs = @ - cpu,
                                      ![source].mem_usage_abs = @ - mem]
                   ELSE loads
             l2 == IF target \in DOMAIN l1
                   THEN [l1 EXCEPT ![target].cpu_usage_abs = @ + cpu,
                                   ![target].mem_usage_abs = @ + mem]
                   ELSE l1
         IN SimulateAbsoluteLoads(l2, Tail(migs))

\* _get_simulated_load_data_after_migrations: the simulated load map; CPU and
\* memory from the simulated absolute loads, disk and network carried through
_get_simulated_load_data_after_migrations(migs) ==
    LET start == Tabulate([h \in ActiveHosts |->
                    [cpu_usage_abs |-> HostMetricGet(h, "cpu_usage", 0),
                     mem_usage_abs |-> HostMetricGet(h, "memory_usage", 0),
                     cpu_cap_abs |-> HostMetricGet(h, "cpu_capacity", 1),
                     mem_cap_abs |-> HostMetricGet(h, "memory_capacity", 1)]], ActiveHosts)
        sim == SimulateAbsoluteLoads(start, migs)
        orig == get_all_host_resource_percentages_map
    IN Tabulate([h \in ActiveHosts |->
          [cpu |-> Pct(sim[h].cpu_usage_abs, sim[h].cpu_cap_abs),
           memory |-> Pct(sim[h].mem_usage_abs, sim[h].mem_cap_abs),
           disk |-> orig[h].disk,
           network |-> orig[h].network]], ActiveHosts)

\* a faulty variant of SnapshotHostMetricsAfter: the simulation works on the
\* snapshot's own entries, so the moved VMs' CPU and memory show in host_metrics
SnapshotHostMetricsAliased(migs) ==
    LET start == Tabulate([h \in ActiveHosts |->
                    [cpu_usage_abs |-> HostMetricGet(h, "cpu_usage", 0),
                     mem_usage_abs |-> HostMetricGet(h, "memory_usage", 0),
                     cpu_cap_abs |-> HostMetricGet(h, "cpu_capacity", 1),
                     mem_cap_abs |-> HostMetricGet(h, "memory_capacity", 1)]], ActiveHosts)
        sim == SimulateAbsoluteLoads(start, migs)
    IN [h \in DOMAIN host_metrics |->
          IF h \in ActiveHosts
          THEN [host_metrics[h] EXCEPT !.cpu_usage = sim[h].cpu_usage_abs,
                                       !.memory_usage = sim[h].mem_usage_abs]
          ELSE host_metrics[h]]

\* cluster_state.host_metrics once _get_simulated_load_data_after_migrations has
\* run on the moves: the loop adds and subtracts in current_absolute_host_loads,
\* whose entries are dictionaries built from the values read, so every entry of
\* the snapshot keeps its values
SnapshotHostMetricsAfter(migs) ==
    [h \in DOMAIN host_metrics |-> host_metrics[h]]

\* cluster_state.host_metrics once a pass has run: the simulation is called when
\* the balancing pass follows anti-affinity moves
HostMetricsAfterPass(aa, aa_only_arg) ==
    IF ~aa_only_arg /\ aa # <<>> THEN SnapshotHostMetricsAfter(aa) ELSE host_metrics

\* the projection of the two fit checks: the host's recorded usage plus the VM's
\* usage exceeds limit percent of the capacity (100.0 > limit when capacity is 0)
ProjectedOver(curr, req, cap, limit) ==
    IF cap > 0 THEN (curr + req) * 100 > limit * cap ELSE 100 > limit

FitsWithin(vm, h, cpu_limit, mem_limit) ==
    LET vm_cpu_req == VmMetric(vm, "cpu_usage_abs")
        vm_mem_req == VmMetric(vm, "memory_usage_abs")
        host_cpu_cap == HostMetricGet(h, "cpu_capacity", 1)
        host_mem_cap == HostMetricGet(h, "memory_capacity", 1)
        host_cpu_curr == HostMetricGet(h, "cpu_usage", 0)
        host_mem_curr == HostMetricGet(h, "memory_usage_abs", 0)
    IN IF NoVmMetrics(vm) THEN FALSE
       ELSE IF ProjectedOver(host_cpu_curr, vm_cpu_req, host_cpu_cap, cpu_limit) THEN FALSE
       ELSE IF ProjectedOver(host_mem_curr, vm_mem_req, host_mem_cap, mem_limit) THEN FALSE
       ELSE TRUE

HardLimit == 90
SoftLimit == 95

\* _would_fit_on_host: the hard fit check of a balancing move
_would_fit_on_host(vm, h) == FitsWithin(vm, h, HardLimit, HardLimit)

\* _would_fit_on_host_soft: the soft fit check of an anti-affinity move
_would_fit_on_host_soft(vm, h) == FitsWithin(vm, h, SoftLimit, SoftLimit)

\* planned_vm_locations of _is_anti_affinity_safe: the target of the last
\* planned move of the VM, NoHost when it has none
RECURSIVE PlannedLocation(_, _)
PlannedLocation(planned, vm) ==
    IF planned = <<>> THEN NoHost
    ELSE IF planned[Len(planned)].vm = vm THEN planned[Len(planned)].target_host
    ELSE PlannedLocation(SubSeq(planned, 1, Len(planned) - 1), vm)

\* vm_to_move.name[:-2], the group key the safety check looks up
SafetyCheckPrefix(name) == SubSeq(name, 1, Len(name) - 2)

\* _is_anti_affinity_safe(vm_to_move, target_host_obj, planned_migrations_in_cycle)
_is_anti_affinity_safe(vm, target, planned) ==
    LET vm_prefix == SafetyCheckPrefix(vm)
        dist == IF DOMAIN vm_distribution = {} THEN enforce_anti_affinity ELSE vm_distribution
        vms_in_group == IF vm_prefix \in DOMAIN dist THEN dist[vm_prefix] ELSE <<>>
        final(v) == IF v = vm THEN target
                    ELSE IF PlannedLocation(planned, v) # NoHost THEN PlannedLocation(planned, v)
                    ELSE get_host_of_vm(v)
        counts == Tabulate([h \in ActiveHosts |->
                      Cardinality({v \in Range(vms_in_group) : final(v) = h})], ActiveHosts)
    IN IF vms_in_group = <<>> THEN TRUE
       ELSE IF Len(hosts) <= 1 THEN TRUE
       ELSE Spread(counts) <= 1

(***************************************************************************)
(* MigrationManager: the anti-affinity pass.                               *)
(***************************************************************************)
AntiAffinity == "Anti-Affinity"
Balancing == "Resource Balancing"

\* the admission check of an anti-affinity move: none for a planner built with
\* anti_affinity_only, the soft fit check otherwise
AntiAffinityAdmitted(vm, target) ==
    IF anti_affinity_only THEN TRUE ELSE _would_fit_on_host_soft(vm, target)

RECURSIVE AntiAffinityLoop(_, _)
\* _plan_anti_affinity_migrations, the loop over the violators; acc holds the
\* moves planned in this step and vms_in_migration_plan
AntiAffinityLoop(viol, acc) ==
    IF viol = <<>> THEN acc
    ELSE LET vm == viol[1]
             target == get_preferred_host_for_vm(vm, acc.planned)
         IN IF vm \in acc.in_plan
            THEN AntiAffinityLoop(Tail(viol), acc)
            ELSE IF target # NoHost /\ AntiAffinityAdmitted(vm, target)
                 THEN AntiAffinityLoop(Tail(viol),
                        [planned |-> Append(acc.planned, Move(vm, target, AntiAffinity)),
                         in_plan |-> acc.in_plan \cup {vm}])
                 ELSE AntiAffinityLoop(Tail(viol), acc)

\* _plan_anti_affinity_migrations(vms_in_migration_plan) on the violator list
_plan_anti_affinity_migrations(viol, in_plan) ==
    AntiAffinityLoop(viol, [planned |-> <<>>, in_plan |-> in_plan])

(***************************************************************************)
(* MigrationManager: the balancing pass.                                   *)
(***************************************************************************)
\* sort_key of _select_vms_to_move
SortKey(vm, imbalanced_resource) ==
    IF NoVmMetrics(vm) THEN 0
    ELSE IF imbalanced_resource = "cpu" THEN VmMetric(vm, "cpu_usage_abs")
    ELSE IF imbalanced_resource = "memory" THEN VmMetric(vm, "memory_usage_abs")
    ELSE VmMetric(vm, "cpu_usage_abs") + VmMetric(vm, "memory_usage_abs")

RECURSIVE InsertDescending(_, _, _)
\* x put into the descending sequence s after the elements whose key is >= its own
InsertDescending(s, x, res) ==
    IF s = <<>> THEN <<x>>
    ELSE IF SortKey(s[1], res) >= SortKey(x, res)
         THEN <<s[1]>> \o InsertDescending(Tail(s), x, res)
         ELSE <<x>> \o s

RECURSIVE SortDescending(_, _)
\* candidate_vms.sort(key=sort_key, reverse=True): stable, descending
SortDescending(s, res) ==
    IF s = <<>> THEN <<>>
    ELSE InsertDescending(SortDescending(SubSeq(s, 1, Len(s) - 1), res), s[Len(s)], res)

\* candidate_vms[:num_to_select]
FirstN(s, n) == SubSeq(s, 1, IF Len(s) < n THEN Len(s) ELSE n)

\* a faulty variant of CandidateVMs: the VMs already planned are not excluded
CandidateVMsWithPlanned(source, in_plan) == get_vms_on_host(source)

\* the VMs of the host that are not yet planned, in vms order
CandidateVMs(source, in_plan) ==
    SelectSeq2(get_vms_on_host(source), Range(vms) \ in_plan)

\* a faulty variant of _select_vms_to_move: every candidate is selected
SelectWithoutLimit(source, imbalanced_resource, in_plan, aggr) ==
    SortDescending(CandidateVMs(source, in_plan), imbalanced_resource)

\* _select_vms_to_move(source_host_obj, imbalanced_resource, vms_already_in_plan)
_select_vms_to_move(source, imbalanced_resource, in_plan, aggr) ==
    FirstN(SortDescending(CandidateVMs(source, in_plan), imbalanced_resource), aggr)

\* the ping-pong guard: target_usage < source_usage - threshold / 3.0
PingPongOk(target_usage, source_usage, threshold) ==
    3 * target_usage < 3 * source_usage - threshold

\* the score of a target: the sum over the imbalanced resources of 100 - target %
Score(target_pct, problematic) ==
    SeqSum([i \in 1..Len(problematic) |-> 10000 - target_pct[problematic[i]]])

\* the targets of _find_better_host_for_balancing that pass every check, in
\* all_hosts order
PotentialTargets(vm, source, source_pct, hint, problematic, load_map, planned, aggr) ==
    SelectSeq2(hosts, {t \in ActiveHosts :
        /\ t # source
        /\ _would_fit_on_host(vm, t)
        /\ ignore_anti_affinity \/ _is_anti_affinity_safe(vm, t, planned)
        /\ PingPongOk(load_map[t][hint], source_pct[hint], get_thresholds(aggr))
        /\ Score(load_map[t], problematic) > 0})

RECURSIVE FirstBestScore(_, _, _, _)
\* potential_targets.sort(key=score, reverse=True)[0]: the first host with the
\* highest score
FirstBestScore(cands, load_map, problematic, best) ==
    IF cands = <<>> THEN best
    ELSE IF best = NoHost
            \/ Score(load_map[cands[1]], problematic) > Score(load_map[best], problematic)
         THEN FirstBestScore(Tail(cands), load_map, problematic, cands[1])
         ELSE FirstBestScore(Tail(cands), load_map, problematic, best)

\* _find_better_host_for_balancing
_find_better_host_for_balancing(vm, source, source_pct, hint, problematic, load_map, planned, aggr) ==
    FirstBestScore(
        PotentialTargets(vm, source, source_pct, hint, problematic, load_map, planned, aggr),
        load_map, problematic, NoHost)

\* problematic_resources_names: the imbalanced resources, in report order
ProblematicResources(details) ==
    SelectSeq2(ResourceOrder, {r \in Range(ResourceOrder) : details[r].is_imbalanced})

\* the source-candidate test of one host for one problematic resource
IsMaxUsageContributor(usage, detail, threshold) ==
    /\ 2 * usage > 2 * detail.avg_usage + threshold
    /\ 100 * usage >= 95 * detail.max_usage
    /\ usage > 0

\* the problematic resources for which the host is a source candidate
SourceReasons(source_pct, details, problematic, aggr) ==
    SelectSeq2(problematic, {r \in Range(problematic) :
        IsMaxUsageContributor(source_pct[r], details[r], get_thresholds(aggr))})

RECURSIVE BalanceVMLoop(_, _, _, _, _, _, _, _)
\* _plan_balancing_migrations, the loop over the VMs selected on one source; acc
\* holds balancing_migrations, vms_in_migration_plan and
\* safety_check_migrations_list
BalanceVMLoop(cands, source, source_pct, hint, problematic, load_map, aggr, acc) ==
    IF cands = <<>> THEN acc
    ELSE LET vm == cands[1]
             target == _find_better_host_for_balancing(vm, source, source_pct, hint,
                            problematic, load_map, acc.safety, aggr)
             move == Move(vm, target, Balancing)
         IN IF target # NoHost
            THEN BalanceVMLoop(Tail(cands), source, source_pct, hint, problematic,
                               load_map, aggr,
                               [planned |-> Append(acc.planned, move),
                                in_plan |-> acc.in_plan \cup {vm},
                                safety |-> Append(acc.safety, move)])
            ELSE BalanceVMLoop(Tail(cands), source, source_pct, hint, problematic,
                               load_map, aggr, acc)

RECURSIVE BalanceHostLoop(_, _, _, _, _, _)
\* _plan_balancing_migrations, the loop over the hosts as sources
BalanceHostLoop(srcs, details, problematic, load_map, aggr, acc) ==
    IF srcs = <<>> THEN acc
    ELSE LET source == srcs[1]
             source_pct == load_map[source]
             reasons == SourceReasons(source_pct, details, problematic, aggr)
             hint == reasons[1]
             cands == _select_vms_to_move(source, hint, acc.in_plan, aggr)
         IN IF reasons = <<>>
            THEN BalanceHostLoop(Tail(srcs), details, problematic, load_map, aggr, acc)
            ELSE BalanceHostLoop(Tail(srcs), details, problematic, load_map, aggr,
                    BalanceVMLoop(cands, source, source_pct, hint, problematic,
                                  load_map, aggr, acc))

\* _plan_balancing_migrations(vms_in_migration_plan, decision map, planned list)
_plan_balancing_migrations(in_plan, load_map, planned_so_far, aggr) ==
    LET details == evaluate_imbalance(load_map, aggr)
        problematic == ProblematicResources(details)
    IN IF problematic = <<>>
       THEN [planned |-> <<>>, in_plan |-> in_plan, safety |-> planned_so_far]
       ELSE BalanceHostLoop(hosts, details, problematic, load_map, aggr,
                [planned |-> <<>>, in_plan |-> in_plan, safety |-> planned_so_far])

(***************************************************************************)
(* MigrationManager.plan_migrations.                                       *)
(***************************************************************************)
\* a faulty variant of Truncate: the balancing moves are put first
TruncateBalancingFirst(aa, bal, limit) ==
    IF Len(aa) + Len(bal) > limit
    THEN SubSeq(bal \o aa, 1, limit)
    ELSE bal \o aa

\* a faulty variant of Truncate: the remaining slots are not filled
TruncateWithoutFill(aa, bal, limit) ==
    IF Len(aa) + Len(bal) > limit
    THEN SubSeq(aa, 1, IF Len(aa) < limit THEN Len(aa) ELSE limit)
    ELSE aa \o bal

\* the overall migration limit: anti-affinity moves first, balancing moves in
\* the remaining slots
Truncate(aa, bal, limit) ==
    IF Len(aa) + Len(bal) > limit
    THEN IF Len(aa) >= limit
         THEN SubSeq(aa, 1, limit)
         ELSE aa \o SubSeq(bal, 1, limit - Len(aa))
    ELSE aa \o bal

\* the load map the balancing pass decides on: the simulation of the
\* anti-affinity moves when there are any, the evaluator's map otherwise
DecisionLoadMap(aa) ==
    IF aa # <<>> THEN _get_simulated_load_data_after_migrations(aa)
    ELSE get_all_host_resource_percentages_map

\* one pass of plan_migrations on the violator list viol with aggressiveness
\* aggr: the two untruncated lists and the plan
plan_migrations(viol, aa_only_arg, aggr) ==
    LET aa == _plan_anti_affinity_migrations(viol, {})
        bal == IF aa_only_arg THEN <<>>
               ELSE _plan_balancing_migrations(aa.in_plan, DecisionLoadMap(aa.planned),
                                               aa.planned, aggr).planned
    IN [aa |-> aa.planned, bal |-> bal,
        plan |-> Truncate(aa.planned, bal, max_total_migrations)]

(***************************************************************************)
(* MigrationManager.plan_migrations_iterative: the loop body's decisions.  *)
(***************************************************************************)
DefaultAggressiveness == 3   \* the default of is_balanced's aggressiveness parameter
ThresholdMultiplierPct == 105   \* iteration_threshold_multiplier = 1.05, times 100

\* max(1, int(self.aggressiveness / iteration_threshold_multiplier)) from the
\* second iteration on
IterationAggressiveness(iter, aggr) ==
    IF iter > 1 THEN Max2(1, (aggr * 100) \div ThresholdMultiplierPct) ELSE aggr

\* the convergence check at the head of an iteration: no violator is computed on
\* the cluster state and is_balanced() holds on the evaluator's percentages
ConvergenceCheck ==
    /\ calculate_anti_affinity_violations(vm_distribution) = {}
    /\ is_balanced(get_resource_percentage_lists, DefaultAggressiveness)

\* [(plan['vm'], plan['target_host']) for plan in migrations]
PlanTuples(migs) == [i \in 1..Len(migs) |-> <<migs[i].vm, migs[i].target_host>>]

(***************************************************************************)
(* Inputs: the inventories and configurations the runs start from.         *)
(***************************************************************************)
Name(stem, digits) == stem \o digits

Web == <<"w", "e", "b">>
Db == <<"d", "b">>

\* VM names with two trailing digits, with one, and with three
TwoDigitPool ==
    <<Name(Web, <<"0", "1">>), Name(Web, <<"0", "2">>), Name(Db, <<"0", "1">>),
      Name(Web, <<"0", "3">>), Name(Db, <<"0", "2">>), Name(Web, <<"0", "4">>)>>
OneDigitPool ==
    <<Name(Web, <<"1">>), Name(Web, <<"2">>), Name(Db, <<"1">>),
      Name(Web, <<"3">>), Name(Db, <<"2">>), Name(Web, <<"4">>)>>
NamePools == {TwoDigitPool, OneDigitPool}

HostSeq == [i \in 1..NumHosts |-> i]

\* per-VM usage, by position in the inventory: (cpu MHz, memory MB, disk, network);
\* the VMs of a host never use more CPU than its capacity, nor more memory than
\* the host reports
Usage(cpu, mem) ==
    [cpu_usage_abs |-> cpu, memory_usage_abs |-> mem,
     disk_io_usage_abs |-> 0, network_io_usage_abs |-> 0]
UsagePatterns ==
    {[i \in 1..NumVMs |-> Usage(10, 10)],
     [i \in 1..NumVMs |-> IF i % 2 = 1 THEN Usage(30, 10) ELSE Usage(20, 10)],
     [i \in 1..NumVMs |-> IF i <= 2 THEN Usage(40, 20) ELSE Usage(10, 5)]}

\* per-host reported memory usage, by host
HostMemoryPatterns ==
    {[h \in 1..NumHosts |-> 50],
     [h \in 1..NumHosts |-> 85]}

\* annotate_hosts_with_metrics: CPU, disk and network summed over the host's VMs,
\* memory as the host reports it; every capacity of every host is 100
HostMetricsOf(hostseq, vmseq, placement, metrics, host_mem) ==
    [h \in Range(hostseq) |->
        LET on == {v \in Range(vmseq) : placement[v] = h /\ v \in DOMAIN metrics}
        IN [cpu_usage |-> SumOver([v \in on |-> metrics[v].cpu_usage_abs], on),
            memory_usage |-> host_mem[h],
            disk_io_usage |-> SumOver([v \in on |-> metrics[v].disk_io_usage_abs], on),
            network_io_usage |-> SumOver([v \in on |-> metrics[v].network_io_usage_abs], on),
            cpu_capacity |-> 100,
            memory_capacity |-> 100,
            disk_io_capacity |-> 100,
            network_capacity |-> 100]]

\* the state of a run before constraint_manager.apply()
FreshRun ==
    /\ vm_distribution = <<>>
    /\ violations = <<>>
    /\ pc = "start"
    /\ aa_planned = <<>>
    /\ bal_planned = <<>>
    /\ migrations = <<>>
    /\ pass_aggressiveness = 0
    /\ iteration = 0
    /\ all_migrations = <<>>
    /\ outcome = "none"
    /\ imbalance = <<>>
    /\ _cache_percentage_lists = NoCache

\* a HostSystem of the inventory: its connection state and its parent cluster's name
InvHost(id, state, parent) == [id |-> id, connectionState |-> state, parent |-> parent]

\* a VirtualMachine of the inventory: config.template, runtime.powerState and
\* runtime.host (NoHost when the VM has no host reference)
InvVM(name, host, template, power) ==
    [name |-> name, host |-> host, template |-> template, powerState |-> power]

\* the inventory a snapshot given directly was built from: its hosts connected,
\* its VMs powered on and no template, no cluster selected
GivenInventory ==
    /\ inv_hosts = [i \in 1..Len(hosts) |-> InvHost(hosts[i], "connected", "cluster")]
    /\ inv_vms = [i \in 1..Len(vms) |-> InvVM(vms[i], vm_host[vms[i]], FALSE, "poweredOn")]
    /\ cluster_name = ""

InitSnapshot ==
    \E pool \in NamePools, usage \in UsagePatterns, host_mem \in HostMemoryPatterns :
      LET vmseq == SubSeq(pool, 1, NumVMs) IN
      \E placement \in [Range(vmseq) -> 1..NumHosts] :
        LET metrics == [v \in Range(vmseq) |->
                          usage[CHOOSE i \in 1..NumVMs : vmseq[i] = v]] IN
        /\ hosts = HostSeq
        /\ vms = vmseq
        /\ vm_host = placement
        /\ vm_metrics = metrics
        /\ host_metrics = HostMetricsOf(HostSeq, vmseq, placement, metrics, host_mem)

DefaultMaxMigrations == 20

\* the planner as fdrs.py builds it: anti-affinity-only with the flag and the
\* argument both set and anti-affinity enforced, or the regular mode
InitConfig ==
    /\ aggressiveness \in {3, 5}
    /\ max_total_migrations \in (0..MaxCap) \cup {DefaultMaxMigrations}
    /\ \E mode \in {"default", "ignore_aa", "aa_only"} :
         /\ anti_affinity_only = (mode = "aa_only")
         /\ arg_anti_affinity_only = (mode = "aa_only")
         /\ ignore_anti_affinity = (mode = "ignore_aa")

Init ==
    /\ InitSnapshot
    /\ InitConfig
    /\ max_iterations = 0
    /\ FreshRun
    /\ run = 1
    /\ prev_plan = <<>>
    /\ GivenInventory

(***************************************************************************)
(* Actions.                                                                *)
(***************************************************************************)
\* constraint_manager.apply(): group the VMs, compute the violators; the list
\* comes out of list(set(...)) in an order the code does not determine
Apply ==
    /\ pc = "start"
    /\ vm_distribution' = enforce_anti_affinity
    /\ violations' \in Orderings(calculate_anti_affinity_violations(enforce_anti_affinity))
    /\ pc' = "applied"
    /\ UNCHANGED <<snapshot, config, passvars, itervars, outcome, run, prev_plan, inventory, imbalance, _cache_percentage_lists>>

\* the violator list a pass works on: the stored one, recomputed when it is empty
PassViolations ==
    IF violations # <<>> THEN {violations}
    ELSE Orderings(calculate_anti_affinity_violations(enforce_anti_affinity))

\* migration_planner.plan_migrations(): one single pass, returned to main
PlanMigrations ==
    /\ pc = "applied"
    /\ \E viol \in PassViolations :
         \E pass \in {plan_migrations(viol, arg_anti_affinity_only, aggressiveness)} :
         /\ violations' = viol
         /\ vm_distribution' =
               IF violations # <<>> THEN vm_distribution ELSE enforce_anti_affinity
         /\ aa_planned' = pass.aa
         /\ bal_planned' = pass.bal
         /\ migrations' = pass.plan
         /\ pass_aggressiveness' = aggressiveness
         /\ host_metrics' = HostMetricsAfterPass(pass.aa, arg_anti_affinity_only)
    /\ outcome' = "single"
    /\ pc' = "done"
    /\ _cache_percentage_lists' = CacheAfterPass(arg_anti_affinity_only)
    /\ UNCHANGED <<hosts, vms, vm_host, vm_metrics, config, itervars, run, prev_plan,
                   inventory, imbalance>>

Next == Apply \/ PlanMigrations

Spec == Init /\ [][Next]_vars

(***************************************************************************)
(* A second run of the program on the same inventory with the same         *)
(* configuration.                                                          *)
(***************************************************************************)
\* main() run again: a new ConstraintManager and MigrationManager on the same
\* snapshot; the plan the previous run returned is kept for comparison
Restart ==
    /\ pc = "done"
    /\ run < MaxRuns
    /\ prev_plan' = PlanTuples(migrations)
    /\ run' = run + 1
    /\ vm_distribution' = <<>>
    /\ violations' = <<>>
    /\ pc' = "start"
    /\ aa_planned' = <<>>
    /\ bal_planned' = <<>>
    /\ migrations' = <<>>
    /\ pass_aggressiveness' = 0
    /\ outcome' = "none"
    /\ _cache_percentage_lists' = NoCache
    /\ UNCHANGED <<snapshot, config, itervars, inventory, imbalance>>

\* the configurations of the repeated runs: the default migration limit,
\* aggressiveness 3, every mode
InitPurity ==
    /\ InitSnapshot
    /\ aggressiveness = DefaultAggressiveness
    /\ max_total_migrations = DefaultMaxMigrations
    /\ \E mode \in {"default", "ignore_aa", "aa_only"} :
         /\ anti_affinity_only = (mode = "aa_only")
         /\ arg_anti_affinity_only = (mode = "aa_only")
         /\ ignore_anti_affinity = (mode = "ignore_aa")
    /\ max_iterations = 0
    /\ FreshRun
    /\ run = 1
    /\ prev_plan = <<>>
    /\ GivenInventory

NextPurity == Apply \/ PlanMigrations \/ Restart

SpecPurity == InitPurity /\ [][NextPurity]_vars

(***************************************************************************)
(* plan_migrations_iterative.                                              *)
(***************************************************************************)
\* a faulty variant of IterativeIteration: a pass without moves does not end the
\* loop
IterativeIterationNoBreak ==
    /\ pc \in {"applied", "iterating"}
    /\ iteration < max_iterations
    /\ IF ConvergenceCheck
       THEN /\ pc' = "done"
            /\ outcome' = "converged"
            /\ _cache_percentage_lists' = get_resource_percentage_lists
            /\ UNCHANGED <<cmstate, passvars, itervars, host_metrics>>
       ELSE \E viol \in PassViolations :
              \E pass \in {plan_migrations(viol, arg_anti_affinity_only,
                              IterationAggressiveness(iteration + 1, aggressiveness))} :
              /\ violations' = viol
              /\ vm_distribution' =
                    IF violations # <<>> THEN vm_distribution ELSE enforce_anti_affinity
              /\ aa_planned' = pass.aa
              /\ bal_planned' = pass.bal
              /\ migrations' = pass.plan
              /\ pass_aggressiveness' = IterationAggressiveness(iteration + 1, aggressiveness)
              /\ host_metrics' = HostMetricsAfterPass(pass.aa, arg_anti_affinity_only)
              /\ iteration' = iteration + 1
              /\ _cache_percentage_lists' =
                    IF pass.plan = <<>> THEN CacheAfterPass(arg_anti_affinity_only) ELSE NoCache
              /\ all_migrations' = all_migrations \o PlanTuples(pass.plan)
              /\ pc' = "iterating"
              /\ outcome' = outcome
    /\ UNCHANGED <<hosts, vms, vm_host, vm_metrics, config, run, prev_plan, inventory, imbalance>>

\* one iteration of the loop of plan_migrations_iterative: the convergence check
\* and its return, or a planning pass with the iteration's aggressiveness, then
\* the break on an empty plan or the extension of the accumulated plan
IterativeIteration ==
    /\ pc \in {"applied", "iterating"}
    /\ iteration < max_iterations
    /\ IF ConvergenceCheck
       THEN /\ pc' = "done"
            /\ outcome' = "converged"
            /\ _cache_percentage_lists' = get_resource_percentage_lists
            /\ UNCHANGED <<cmstate, passvars, itervars, host_metrics>>
       ELSE \E viol \in PassViolations :
              \E pass \in {plan_migrations(viol, arg_anti_affinity_only,
                              IterationAggressiveness(iteration + 1, aggressiveness))} :
              /\ violations' = viol
              /\ vm_distribution' =
                    IF violations # <<>> THEN vm_distribution ELSE enforce_anti_affinity
              /\ aa_planned' = pass.aa
              /\ bal_planned' = pass.bal
              /\ migrations' = pass.plan
              /\ pass_aggressiveness' = IterationAggressiveness(iteration + 1, aggressiveness)
              /\ host_metrics' = HostMetricsAfterPass(pass.aa, arg_anti_affinity_only)
              /\ iteration' = iteration + 1
              /\ _cache_percentage_lists' =
                    IF pass.plan = <<>> THEN CacheAfterPass(arg_anti_affinity_only) ELSE NoCache
              /\ IF pass.plan = <<>>
                 THEN /\ all_migrations' = all_migrations
                      /\ pc' = "done"
                      /\ outcome' = "no_moves"
                 ELSE /\ all_migrations' = all_migrations \o PlanTuples(pass.plan)
                      /\ pc' = "iterating"
                      /\ outcome' = outcome
    /\ UNCHANGED <<hosts, vms, vm_host, vm_metrics, config, run, prev_plan, inventory, imbalance>>

\* the loop has run max_iterations passes: the final state check (which only
\* logs) and the return of the accumulated plan
IterativeReturn ==
    /\ pc \in {"applied", "iterating"}
    /\ iteration >= max_iterations
    /\ pc' = "done"
    /\ outcome' = "exhausted"
    /\ _cache_percentage_lists' = get_resource_percentage_lists
    /\ UNCHANGED <<snapshot, config, cmstate, passvars, itervars, run, prev_plan, inventory, imbalance>>

\* the configurations of the iterative runs
InitIter ==
    /\ InitSnapshot
    /\ aggressiveness \in {3, 5}
    /\ max_total_migrations \in {1, DefaultMaxMigrations}
    /\ \E mode \in {"default", "aa_only"} :
         /\ anti_affinity_only = (mode = "aa_only")
         /\ arg_anti_affinity_only = (mode = "aa_only")
         /\ ignore_anti_affinity = FALSE
    /\ max_iterations \in 1..MaxIter
    /\ FreshRun
    /\ run = 1
    /\ prev_plan = <<>>
    /\ GivenInventory

NextIter == Apply \/ IterativeIteration \/ IterativeReturn

SpecIter == InitIter /\ [][NextIter]_vars

(***************************************************************************)
(* Scenario S6: 4 hosts, 8 VMs web01..web08, 5 on H1 and 1 on each other   *)
(* host, loads balanced, aggressiveness 3, max_iterations 3.               *)
(***************************************************************************)
S6Hosts == <<1, 2, 3, 4>>

S6VMs ==
    <<Name(Web, <<"0", "1">>), Name(Web, <<"0", "2">>), Name(Web, <<"0", "3">>),
      Name(Web, <<"0", "4">>), Name(Web, <<"0", "5">>), Name(Web, <<"0", "6">>),
      Name(Web, <<"0", "7">>), Name(Web, <<"0", "8">>)>>

\* web01..web05 on H1, web06 on H2, web07 on H3, web08 on H4
S6Placement ==
    [v \in Range(S6VMs) |->
        LET i == CHOOSE k \in 1..Len(S6VMs) : S6VMs[k] = v
        IN IF i <= 5 THEN 1 ELSE i - 4]

InitS6 ==
    LET metrics == [v \in Range(S6VMs) |-> Usage(2, 1)]
        host_mem == [h \in Range(S6Hosts) |-> 30]
    IN /\ hosts = S6Hosts
       /\ vms = S6VMs
       /\ vm_host = S6Placement
       /\ vm_metrics = metrics
       /\ host_metrics = HostMetricsOf(S6Hosts, S6VMs, S6Placement, metrics, host_mem)
       /\ aggressiveness = 3
       /\ max_total_migrations = DefaultMaxMigrations
       /\ anti_affinity_only = FALSE
       /\ arg_anti_affinity_only = FALSE
       /\ ignore_anti_affinity = FALSE
       /\ max_iterations = 3
       /\ FreshRun
       /\ run = 1
       /\ prev_plan = <<>>
       /\ GivenInventory

SpecS6 == InitS6 /\ [][NextIter]_vars

(***************************************************************************)
(***************************************************************************)
(* Anti-affinity-only runs on one group: scenario S1 (3 hosts, app01..app03 *)
(* on one host) and the same group with 7 VMs on 4 hosts.                  *)
(***************************************************************************)
App == <<"a", "p", "p">>

AppVMs ==
    <<Name(App, <<"0", "1">>), Name(App, <<"0", "2">>), Name(App, <<"0", "3">>),
      Name(App, <<"0", "4">>), Name(App, <<"0", "5">>), Name(App, <<"0", "6">>),
      Name(App, <<"0", "7">>)>>

\* the inventories: 3 VMs on 3 hosts, 7 VMs on 4 hosts
AppSizes == {<<3, 3>>, <<4, 7>>}

\* the placements of the first n VMs on hosts 1..nh that fill the hosts in
\* inventory order (the VM of a later position is on the same or a later host)
AppPlacements(nh, n) ==
    {p \in [1..n -> 1..nh] : \A i \in 1..(n - 1) : p[i] <= p[i + 1]}

\* the planner as fdrs.py builds it for --apply-anti-affinity
InitAA ==
    /\ \E size \in AppSizes :
         \E p \in AppPlacements(size[1], size[2]) :
           LET hostseq == [i \in 1..size[1] |-> i]
               vmseq == SubSeq(AppVMs, 1, size[2])
               placement == [v \in Range(vmseq) |-> p[CHOOSE i \in 1..size[2] : vmseq[i] = v]]
               metrics == [v \in Range(vmseq) |-> Usage(1, 1)]
           IN /\ hosts = hostseq
              /\ vms = vmseq
              /\ vm_host = placement
              /\ vm_metrics = metrics
              /\ host_metrics = HostMetricsOf(hostseq, vmseq, placement, metrics,
                                              [h \in Range(hostseq) |-> 10])
    /\ aggressiveness = DefaultAggressiveness
    /\ max_total_migrations = DefaultMaxMigrations
    /\ anti_affinity_only = TRUE
    /\ arg_anti_affinity_only = TRUE
    /\ ignore_anti_affinity = FALSE
    /\ max_iterations = 0
    /\ FreshRun
    /\ run = 1
    /\ prev_plan = <<>>
    /\ GivenInventory

SpecAA == InitAA /\ [][Next]_vars

(***************************************************************************)
(* Scenario S2: hosts H1 (95 % cpu), H2 (20 %), H3 (25 %), capacity 1000    *)
(* each; db01 and db02 on H1, one VM of another group on H2 and on H3.     *)
(***************************************************************************)
S2Hosts == <<1, 2, 3>>

S2VMs == <<Name(Db, <<"0", "1">>), Name(Db, <<"0", "2">>), Name(Web, <<"0", "1">>), Name(App, <<"0", "1">>)>>

\* db01 and db02 on H1, web01 on H2, app01 on H3
S2Placement ==
    [v \in Range(S2VMs) |->
        LET i == CHOOSE k \in 1..Len(S2VMs) : S2VMs[k] = v
        IN IF i <= 2 THEN 1 ELSE i - 1]

\* the CPU of db01; db02 has the rest of H1's 950 MHz
S2Db01Cpu == {50, 200, 350, 475, 600}

\* host_metrics of the scenario: the sums over the VMs, with capacity 1000
S2HostMetrics(metrics, host_mem) ==
    [h \in Range(S2Hosts) |->
        [HostMetricsOf(S2Hosts, S2VMs, S2Placement, metrics, host_mem)[h]
            EXCEPT !.cpu_capacity = 1000, !.memory_capacity = 1000]]

InitS2 ==
    /\ \E a \in S2Db01Cpu, mem \in {300, 500} :
         LET metrics == [v \in Range(S2VMs) |->
                            IF v = S2VMs[1] THEN Usage(a, 100)
                            ELSE IF v = S2VMs[2] THEN Usage(950 - a, 100)
                            ELSE IF v = S2VMs[3] THEN Usage(200, 100)
                            ELSE Usage(250, 100)]
         IN /\ hosts = S2Hosts
            /\ vms = S2VMs
            /\ vm_host = S2Placement
            /\ vm_metrics = metrics
            /\ host_metrics = S2HostMetrics(metrics, [h \in Range(S2Hosts) |-> mem])
    /\ aggressiveness \in 1..5
    /\ max_total_migrations = DefaultMaxMigrations
    /\ anti_affinity_only = FALSE
    /\ arg_anti_affinity_only = FALSE
    /\ ignore_anti_affinity = FALSE
    /\ max_iterations = 0
    /\ FreshRun
    /\ run = 1
    /\ prev_plan = <<>>
    /\ GivenInventory

SpecS2 == InitS2 /\ [][Next]_vars

(***************************************************************************)
(* _get_simulated_load_data_after_migrations called on a move list that    *)
(* may name a target host outside the snapshot.                            *)
(***************************************************************************)
\* a host object that is not in cluster_state.hosts
ForeignHost == Len(hosts) + 1

\* the move lists handed to the simulation: the first VM of the snapshot moved
\* to a host of the snapshot or to the foreign host, alone or after a move of
\* the second VM to H1
SimulatedPlans ==
    {<<Move(vms[1], t, AntiAffinity)>> : t \in ActiveHosts \cup {ForeignHost}}
    \cup {<<Move(vms[2], hosts[1], AntiAffinity), Move(vms[1], ForeignHost, AntiAffinity)>>}

\* how _get_simulated_load_data_after_migrations ends: for a target that is not
\* in current_absolute_host_loads it logs an error and goes on, and it returns
\* the percentage lists and the map in every case
SimulationOutcome(migs) ==
    IF \E i \in 1..Len(migs) : migs[i].target_host \notin ActiveHosts
    THEN "simulated"   \* logger.error("... Load not incremented ..."), then the return
    ELSE "simulated"   \* the return of the lists and the map

\* _get_simulated_load_data_after_migrations(migrations_to_simulate)
SimulateMoves ==
    /\ pc = "applied"
    /\ \E migs \in SimulatedPlans :
         /\ migrations' = migs
         /\ outcome' = SimulationOutcome(migs)
         /\ host_metrics' = SnapshotHostMetricsAfter(migs)
    /\ pc' = "done"
    /\ _cache_percentage_lists' = get_resource_percentage_lists
    /\ UNCHANGED <<hosts, vms, vm_host, vm_metrics, config, cmstate, aa_planned, bal_planned,
                   pass_aggressiveness,
                   itervars, run, prev_plan, inventory, imbalance>>

NextSim == Apply \/ PlanMigrations \/ SimulateMoves

SpecSim == InitPurity /\ [][NextSim]_vars

(***************************************************************************)
(* Inventories where annotate_vms_with_metrics recorded no entry for some  *)
(* VM.                                                                     *)
(***************************************************************************)
\* the snapshot of InitSnapshot with the metrics entry of one VM left out: the
\* VM had no _moId or its counters raised, and the loop went on to the next VM
InitDegradedSnapshot ==
    \E pool \in NamePools, usage \in UsagePatterns, host_mem \in HostMemoryPatterns :
      LET vmseq == SubSeq(pool, 1, NumVMs) IN
      \E placement \in [Range(vmseq) -> 1..NumHosts], skipped \in Range(vmseq) :
        LET metrics == [v \in Range(vmseq) \ {skipped} |->
                          usage[CHOOSE i \in 1..NumVMs : vmseq[i] = v]] IN
        /\ hosts = HostSeq
        /\ vms = vmseq
        /\ vm_host = placement
        /\ vm_metrics = metrics
        /\ host_metrics = HostMetricsOf(HostSeq, vmseq, placement, metrics, host_mem)

\* the regular mode with the default limit and aggressiveness 3
InitDegraded ==
    /\ InitDegradedSnapshot
    /\ aggressiveness = DefaultAggressiveness
    /\ max_total_migrations = DefaultMaxMigrations
    /\ anti_affinity_only = FALSE
    /\ arg_anti_affinity_only = FALSE
    /\ ignore_anti_affinity = FALSE
    /\ max_iterations = 0
    /\ FreshRun
    /\ run = 1
    /\ prev_plan = <<>>
    /\ GivenInventory

\* vm_metrics with an entry of usage 0 recorded for every VM that has none
ZeroFilled ==
    [v \in Range(vms) |-> IF v \in DOMAIN vm_metrics THEN vm_metrics[v] ELSE Usage(0, 0)]

\* the planner called again on the same groups and violators, the VMs without an
\* entry now recorded with usage 0; the plan of the first call is kept for
\* comparison
RecordZeroUsage ==
    /\ pc = "done"
    /\ run < MaxRuns
    /\ vm_metrics' = ZeroFilled
    /\ prev_plan' = PlanTuples(migrations)
    /\ run' = run + 1
    /\ aa_planned' = <<>>
    /\ bal_planned' = <<>>
    /\ migrations' = <<>>
    /\ pass_aggressiveness' = 0
    /\ outcome' = "none"
    /\ pc' = "applied"
    /\ _cache_percentage_lists' = NoCache
    /\ UNCHANGED <<hosts, vms, vm_host, host_metrics, config, cmstate, itervars, inventory, imbalance>>

NextDegraded == Apply \/ PlanMigrations \/ RecordZeroUsage

SpecDegraded == InitDegraded /\ [][NextDegraded]_vars

(***************************************************************************)
(* A planner built with or without anti_affinity_only, and plan_migrations *)
(* called with or without the anti_affinity_only argument.                 *)
(***************************************************************************)
\* per-VM usage where one VM takes nearly all of a host's CPU: moving any other
\* VM next to it projects 96 percent
SkewedUsage == [i \in 1..NumVMs |-> IF i = 3 THEN Usage(94, 10) ELSE Usage(2, 10)]
FlagUsagePatterns == {[i \in 1..NumVMs |-> Usage(10, 10)], SkewedUsage}

InitFlagsSnapshot ==
    \E pool \in NamePools, usage \in FlagUsagePatterns, host_mem \in HostMemoryPatterns :
      LET vmseq == SubSeq(pool, 1, NumVMs) IN
      \E placement \in [Range(vmseq) -> 1..NumHosts] :
        LET metrics == [v \in Range(vmseq) |->
                          usage[CHOOSE i \in 1..NumVMs : vmseq[i] = v]] IN
        /\ hosts = HostSeq
        /\ vms = vmseq
        /\ vm_host = placement
        /\ vm_metrics = metrics
        /\ host_metrics = HostMetricsOf(HostSeq, vmseq, placement, metrics, host_mem)

InitFlags ==
    /\ InitFlagsSnapshot
    /\ aggressiveness = DefaultAggressiveness
    /\ max_total_migrations = DefaultMaxMigrations
    /\ anti_affinity_only \in BOOLEAN
    /\ arg_anti_affinity_only \in BOOLEAN
    /\ ignore_anti_affinity = FALSE
    /\ max_iterations = 0
    /\ FreshRun
    /\ run = 1
    /\ prev_plan = <<>>
    /\ GivenInventory

SpecFlags == InitFlags /\ [][Next]_vars

(***************************************************************************)
(* ClusterState built from a vCenter inventory.                            *)
(***************************************************************************)
InvNumVMs == 4

\* the HostSystem objects of the container view: any connection state, the
\* last host in either of two clusters
ConnectionStates == {"connected", "disconnected"}
InvHostSeqs ==
    {[i \in 1..NumHosts |-> InvHost(i, st[i], IF i = NumHosts THEN last ELSE "A")] :
        st \in [1..NumHosts -> ConnectionStates], last \in {"A", "B"}}

\* the VirtualMachine objects of the container view: running VMs, VMs powered
\* off and templates, each registered on a host of the inventory
VMKinds == {<<FALSE, "poweredOn">>, <<FALSE, "poweredOff">>, <<TRUE, "poweredOff">>}
InvVMSeqs ==
    {[i \in 1..InvNumVMs |-> InvVM(TwoDigitPool[i], on[i], kind[i][1], kind[i][2])] :
        on \in [1..InvNumVMs -> 1..NumHosts], kind \in [1..InvNumVMs -> VMKinds]}

\* the inventory object with the given id
InvHostOf(id) == inv_hosts[CHOOSE i \in 1..Len(inv_hosts) : inv_hosts[i].id = id]

\* _get_all_vms: no template, powered on and, when a cluster is selected, on a
\* host whose parent has the cluster's name
_get_all_vms ==
    LET Active(vm) == ~vm.template /\ vm.powerState = "poweredOn"
        InCluster(vm) == vm.host # NoHost /\ InvHostOf(vm.host).parent = cluster_name
        active_vms == SelectSeq(inv_vms, Active)
    IN IF cluster_name # "" THEN SelectSeq(active_vms, InCluster) ELSE active_vms

\* _get_all_hosts: in connected state and, when a cluster is selected, with a
\* parent of the cluster's name
_get_all_hosts ==
    LET Connected(host) == host.connectionState = "connected"
        InCluster(host) == host.parent = cluster_name
        connected_hosts == SelectSeq(inv_hosts, Connected)
    IN IF cluster_name # "" THEN SelectSeq(connected_hosts, InCluster) ELSE connected_hosts

InitInventory ==
    /\ inv_hosts \in InvHostSeqs
    /\ inv_vms \in InvVMSeqs
    /\ cluster_name \in {"", "A"}
    /\ hosts = <<>>
    /\ vms = <<>>
    /\ vm_host = <<>>
    /\ vm_metrics = <<>>
    /\ host_metrics = <<>>
    /\ aggressiveness = DefaultAggressiveness
    /\ max_total_migrations = DefaultMaxMigrations
    /\ anti_affinity_only = FALSE
    /\ arg_anti_affinity_only = FALSE
    /\ ignore_anti_affinity = FALSE
    /\ max_iterations = 0
    /\ vm_distribution = <<>>
    /\ violations = <<>>
    /\ pc = "inventory"
    /\ aa_planned = <<>>
    /\ bal_planned = <<>>
    /\ migrations = <<>>
    /\ pass_aggressiveness = 0
    /\ iteration = 0
    /\ all_migrations = <<>>
    /\ outcome = "none"
    /\ imbalance = <<>>
    /\ _cache_percentage_lists = NoCache
    /\ run = 1
    /\ prev_plan = <<>>

\* ClusterState.__init__: self.vms and self.hosts; vm_host is runtime.host of the
\* VMs kept
ClusterStateInit ==
    /\ pc = "inventory"
    /\ LET kept == _get_all_vms IN
         /\ vms' = [i \in 1..Len(kept) |-> kept[i].name]
         /\ vm_host' = [v \in {kept[i].name : i \in 1..Len(kept)} |->
                          kept[CHOOSE i \in 1..Len(kept) : kept[i].name = v].host]
    /\ hosts' = [i \in 1..Len(_get_all_hosts) |-> _get_all_hosts[i].id]
    /\ pc' = "built"
    /\ UNCHANGED <<vm_metrics, host_metrics, config, cmstate, passvars, itervars, outcome,
                   run, prev_plan, inventory, imbalance, _cache_percentage_lists>>

\* update_metrics: annotate_vms_with_metrics, then annotate_hosts_with_metrics on
\* the hosts kept; every VM uses 10 of CPU and memory, every host reports 50
UpdateMetrics ==
    /\ pc = "built"
    /\ vm_metrics' = [v \in Range(vms) |-> Usage(10, 10)]
    /\ host_metrics' = HostMetricsOf(hosts, vms, vm_host, vm_metrics',
                                     [h \in Range(hosts) |-> 50])
    /\ pc' = "start"
    /\ UNCHANGED <<hosts, vms, vm_host, config, cmstate, passvars, itervars, outcome,
                   run, prev_plan, inventory, imbalance, _cache_percentage_lists>>

NextInventory == ClusterStateInit \/ UpdateMetrics \/ Apply \/ PlanMigrations

SpecInventory == InitInventory /\ [][NextInventory]_vars

(***************************************************************************)
(* Inventories whose VM names are short or end in one, two or three        *)
(* digits.                                                                 *)
(***************************************************************************)
A == <<"a">>

\* names of fewer than three characters
ShortPool == <<Name(A, <<"1">>), Name(A, <<"2">>), Db, Name(A, <<"3">>)>>
ThreeDigitPool ==
    <<Name(Web, <<"0", "0", "1">>), Name(Web, <<"0", "0", "2">>),
      Name(Db, <<"0", "0", "1">>), Name(Web, <<"0", "0", "3">>)>>
AllNamePools == {TwoDigitPool, OneDigitPool, ThreeDigitPool, ShortPool}

InitNamesSnapshot ==
    \E pool \in AllNamePools, usage \in UsagePatterns :
      LET vmseq == SubSeq(pool, 1, NumVMs) IN
      \E placement \in [Range(vmseq) -> 1..NumHosts] :
        LET metrics == [v \in Range(vmseq) |->
                          usage[CHOOSE i \in 1..NumVMs : vmseq[i] = v]] IN
        /\ hosts = HostSeq
        /\ vms = vmseq
        /\ vm_host = placement
        /\ vm_metrics = metrics
        /\ host_metrics = HostMetricsOf(HostSeq, vmseq, placement, metrics,
                                        [h \in 1..NumHosts |-> 50])

\* the regular mode and the anti-affinity-only mode, as fdrs.py builds them
InitNames ==
    /\ InitNamesSnapshot
    /\ aggressiveness = DefaultAggressiveness
    /\ max_total_migrations = DefaultMaxMigrations
    /\ anti_affinity_only \in BOOLEAN
    /\ arg_anti_affinity_only = anti_affinity_only
    /\ ignore_anti_affinity = FALSE
    /\ max_iterations = 0
    /\ FreshRun
    /\ run = 1
    /\ prev_plan = <<>>
    /\ GivenInventory

SpecNames == InitNames /\ [][Next]_vars

(***************************************************************************)
(* main's evaluate_imbalance call on host data at and around every         *)
(* threshold, for known and unknown aggressiveness levels.                 *)
(***************************************************************************)
EvalCapacity == 10000

\* usage out of EvalCapacity: the five thresholds, one hundredth of a percent
\* above each, and 0
EvalLevels == {0, 500, 501, 1000, 1001, 1500, 1501, 2000, 2001, 2500, 2501}

\* aggressiveness as given on the command line: the five levels and two others
EvalAggressiveness == 0..6

\* one VM per host, using level[i] of the resource res and nothing of the others
EvalUsage(res, amount) ==
    [cpu_usage_abs |-> IF res = "cpu" THEN amount ELSE 0,
     memory_usage_abs |-> IF res = "memory" THEN amount ELSE 0,
     disk_io_usage_abs |-> IF res = "disk" THEN amount ELSE 0,
     network_io_usage_abs |-> IF res = "network" THEN amount ELSE 0]

\* annotate_hosts_with_metrics with every capacity at EvalCapacity
EvalHostMetrics(hostseq, vmseq, placement, metrics) ==
    [h \in Range(hostseq) |->
        LET on == {v \in Range(vmseq) : placement[v] = h}
        IN [cpu_usage |-> SumOver([v \in on |-> metrics[v].cpu_usage_abs], on),
            memory_usage |-> SumOver([v \in on |-> metrics[v].memory_usage_abs], on),
            disk_io_usage |-> SumOver([v \in on |-> metrics[v].disk_io_usage_abs], on),
            network_io_usage |-> SumOver([v \in on |-> metrics[v].network_io_usage_abs], on),
            cpu_capacity |-> EvalCapacity,
            memory_capacity |-> EvalCapacity,
            disk_io_capacity |-> EvalCapacity,
            network_capacity |-> EvalCapacity]]

InitEval ==
    /\ \E n \in 0..NumHosts, res \in Range(ResourceOrder) :
         \E level \in [1..n -> EvalLevels] :
           LET vmseq == SubSeq(TwoDigitPool, 1, n)
               placement == [v \in Range(vmseq) |-> CHOOSE i \in 1..n : vmseq[i] = v]
               metrics == [v \in Range(vmseq) |-> EvalUsage(res, level[placement[v]])]
           IN /\ hosts = [i \in 1..n |-> i]
              /\ vms = vmseq
              /\ vm_host = placement
              /\ vm_metrics = metrics
              /\ host_metrics = EvalHostMetrics([i \in 1..n |-> i], vmseq, placement, metrics)
    /\ aggressiveness \in EvalAggressiveness
    /\ max_total_migrations = DefaultMaxMigrations
    /\ anti_affinity_only = FALSE
    /\ arg_anti_affinity_only = FALSE
    /\ ignore_anti_affinity = FALSE
    /\ max_iterations = 0
    /\ FreshRun
    /\ run = 1
    /\ prev_plan = <<>>
    /\ GivenInventory

\* statistical_imbalance_detected = load_evaluator.evaluate_imbalance(
\* aggressiveness=args.aggressiveness)
EvaluateImbalance ==
    /\ pc = "start"
    /\ imbalance = <<>>
    /\ _cache_percentage_lists = NoCache
    /\ imbalance' = evaluate_imbalance(get_resource_percentage_lists, aggressiveness)
    /\ _cache_percentage_lists' = get_resource_percentage_lists
    /\ UNCHANGED <<snapshot, config, cmstate, passvars, itervars, pc, outcome, run,
                   prev_plan, inventory>>

\* constraint_manager.apply(), which main calls after the evaluation
ApplyAfterEvaluation == imbalance # <<>> /\ Apply

NextEval == EvaluateImbalance \/ ApplyAfterEvaluation \/ PlanMigrations

SpecEval == InitEval /\ [][NextEval]_vars

(***************************************************************************)
(* plan_migrations_iterative with --max-iterations 6, every aggressiveness *)
(* level.                                                                  *)
(***************************************************************************)
DecayIterations == 6

InitDecay ==
    /\ \E placement \in [Range(SubSeq(TwoDigitPool, 1, NumVMs)) -> 1..NumHosts] :
         LET vmseq == SubSeq(TwoDigitPool, 1, NumVMs)
             metrics == [v \in Range(vmseq) |-> Usage(10, 10)]
         IN /\ hosts = HostSeq
            /\ vms = vmseq
            /\ vm_host = placement
            /\ vm_metrics = metrics
            /\ host_metrics = HostMetricsOf(HostSeq, vmseq, placement, metrics,
                                            [h \in 1..NumHosts |-> 50])
    /\ aggressiveness \in 1..5
    /\ max_total_migrations = DefaultMaxMigrations
    /\ anti_affinity_only = FALSE
    /\ arg_anti_affinity_only = FALSE
    /\ ignore_anti_affinity = FALSE
    /\ max_iterations = DecayIterations
    /\ FreshRun
    /\ run = 1
    /\ prev_plan = <<>>
    /\ GivenInventory

SpecDecay == InitDecay /\ [][NextIter]_vars

(***************************************************************************)
(* plan_migrations_iterative for every max_iterations from -1 on, the loop *)
(* running to its return.                                                  *)
(***************************************************************************)
InitTerm ==
    /\ InitSnapshot
    /\ aggressiveness = DefaultAggressiveness
    /\ max_total_migrations = DefaultMaxMigrations
    /\ \E mode \in {"default", "aa_only"} :
         /\ anti_affinity_only = (mode = "aa_only")
         /\ arg_anti_affinity_only = (mode = "aa_only")
         /\ ignore_anti_affinity = FALSE
    /\ max_iterations \in -1..MaxIter
    /\ FreshRun
    /\ run = 1
    /\ prev_plan = <<>>
    /\ GivenInventory

\* a step of a run that has not returned: apply(), an iteration of the loop or
\* the return, each of which moves pc or counts an iteration
RunAdvances ==
    /\ pc # "done"
    /\ pc' \in {"applied", "iterating", "done"}
    /\ iteration' \in {iteration, iteration + 1}

\* main and the loop are sequential code without a blocking call: a run that
\* has not returned takes its next step
SpecTerm == InitTerm /\ [][NextIter]_vars /\ WF_<<pc, iteration>>(RunAdvances)

(***************************************************************************)
(* _get_simulated_load_data_after_migrations called on move lists between  *)
(* hosts of the snapshot, on hosts of different capacities and VMs that    *)
(* use disk and network.                                                   *)
(***************************************************************************)
\* the capacities of the hosts, by host: all equal, or growing with the host
FrameCapacities ==
    {[h \in 1..NumHosts |-> 100],
     [h \in 1..NumHosts |-> 100 * h]}

\* the usage of the i-th VM: every VM differs from the others in every resource
FrameUsage(i) ==
    [cpu_usage_abs |-> 10 * i, memory_usage_abs |-> 5 * i,
     disk_io_usage_abs |-> i, network_io_usage_abs |-> 2 * i]

InitFrame ==
    /\ \E placement \in [Range(SubSeq(TwoDigitPool, 1, NumVMs)) -> 1..NumHosts],
          caps \in FrameCapacities :
         LET vmseq == SubSeq(TwoDigitPool, 1, NumVMs)
             metrics == [v \in Range(vmseq) |->
                           FrameUsage(CHOOSE i \in 1..NumVMs : vmseq[i] = v)]
             summed == HostMetricsOf(HostSeq, vmseq, placement, metrics,
                                     [h \in 1..NumHosts |-> 50])
         IN /\ hosts = HostSeq
            /\ vms = vmseq
            /\ vm_host = placement
            /\ vm_metrics = metrics
            /\ host_metrics = [h \in DOMAIN summed |->
                                 [summed[h] EXCEPT !.cpu_capacity = caps[h],
                                                   !.memory_capacity = caps[h],
                                                   !.disk_io_capacity = caps[h],
                                                   !.network_capacity = caps[h]]]
    /\ aggressiveness = DefaultAggressiveness
    /\ max_total_migrations = DefaultMaxMigrations
    /\ anti_affinity_only = FALSE
    /\ arg_anti_affinity_only = FALSE
    /\ ignore_anti_affinity = FALSE
    /\ max_iterations = 0
    /\ FreshRun
    /\ run = 1
    /\ prev_plan = <<>>
    /\ GivenInventory

\* the move lists handed to the simulation: one or two moves of VMs of the
\* snapshot to hosts of the snapshot (the same VM twice and a move to the VM's
\* own host included)
SnapshotPlans ==
    LET moves == {Move(v, t, AntiAffinity) : v \in Range(vms), t \in ActiveHosts}
    IN {<<m>> : m \in moves} \cup {<<m1, m2>> : m1 \in moves, m2 \in moves}

\* _get_simulated_load_data_after_migrations(migrations_to_simulate) on moves
\* between hosts of the snapshot
SimulateSnapshotMoves ==
    /\ pc = "applied"
    /\ \E migs \in SnapshotPlans :
         /\ migrations' = migs
         /\ outcome' = SimulationOutcome(migs)
         /\ host_metrics' = SnapshotHostMetricsAfter(migs)
    /\ pc' = "done"
    /\ _cache_percentage_lists' = get_resource_percentage_lists
    /\ UNCHANGED <<hosts, vms, vm_host, vm_metrics, config, cmstate, aa_planned, bal_planned,
                   pass_aggressiveness,
                   itervars, run, prev_plan, inventory, imbalance>>

NextFrame == Apply \/ SimulateSnapshotMoves

SpecFrame == InitFrame /\ [][NextFrame]_vars

(***************************************************************************)
(* The evaluator's memoized quartet across main's evaluation, changes of   *)
(* the host data and the iterative loop.                                   *)
(***************************************************************************)
\* the memory usage a host reports when its data is collected again
ReportedMemory == {50, 85}

InitCache ==
    /\ \E placement \in [Range(SubSeq(TwoDigitPool, 1, NumVMs)) -> 1..NumHosts] :
         LET vmseq == SubSeq(TwoDigitPool, 1, NumVMs)
             metrics == [v \in Range(vmseq) |-> Usage(10, 10)]
         IN /\ hosts = HostSeq
            /\ vms = vmseq
            /\ vm_host = placement
            /\ vm_metrics = metrics
            /\ host_metrics = HostMetricsOf(HostSeq, vmseq, placement, metrics,
                                            [h \in 1..NumHosts |-> 50])
    /\ aggressiveness = DefaultAggressiveness
    /\ max_total_migrations = DefaultMaxMigrations
    /\ \E mode \in {"default", "aa_only"} :
         /\ anti_affinity_only = (mode = "aa_only")
         /\ arg_anti_affinity_only = (mode = "aa_only")
         /\ ignore_anti_affinity = FALSE
    /\ max_iterations \in 1..2
    /\ FreshRun
    /\ run = 1
    /\ prev_plan = <<>>
    /\ GivenInventory

\* the host data the evaluator holds changes: one host reports another memory
\* usage; the evaluator's cache is left as it is
ChangeHostData ==
    /\ pc \in {"start", "applied", "iterating"}
    /\ \E h \in ActiveHosts, m \in ReportedMemory :
         /\ m # host_metrics[h].memory_usage
         /\ host_metrics' = [host_metrics EXCEPT ![h].memory_usage = m]
    /\ UNCHANGED <<hosts, vms, vm_host, vm_metrics, config, cmstate, passvars, itervars, pc,
                   outcome, run, prev_plan, inventory, imbalance, _cache_percentage_lists>>

NextCache ==
    \/ EvaluateImbalance
    \/ ChangeHostData
    \/ Apply
    \/ IterativeIteration
    \/ IterativeReturn

SpecCache == InitCache /\ [][NextCache]_vars

(***************************************************************************)
(* _find_better_host_for_balancing called as the balancing pass calls it   *)
(* for the first VM it considers, on hosts whose loads differ by exactly a *)
(* third of the threshold and by more.                                     *)
(***************************************************************************)
\* per-VM usage, by position: CPU 30, 25, 5, 5, or 10 for every VM
TargetUsagePatterns ==
    {[i \in 1..NumVMs |-> IF i = 1 THEN Usage(30, 10)
                          ELSE IF i = 2 THEN Usage(25, 10) ELSE Usage(5, 10)],
     [i \in 1..NumVMs |-> Usage(10, 10)]}

\* per-host reported memory usage
TargetHostMemory ==
    {[h \in 1..NumHosts |-> 50],
     [h \in 1..NumHosts |-> IF h = NumHosts THEN 85 ELSE 50],
     [h \in 1..NumHosts |-> IF h = 1 THEN 85 ELSE 50]}

InitTarget ==
    /\ \E placement \in [Range(SubSeq(TwoDigitPool, 1, NumVMs)) -> 1..NumHosts],
          usage \in TargetUsagePatterns, host_mem \in TargetHostMemory :
         LET vmseq == SubSeq(TwoDigitPool, 1, NumVMs)
             metrics == [v \in Range(vmseq) |->
                           usage[CHOOSE i \in 1..NumVMs : vmseq[i] = v]]
         IN /\ hosts = HostSeq
            /\ vms = vmseq
            /\ vm_host = placement
            /\ vm_metrics = metrics
            /\ host_metrics = HostMetricsOf(HostSeq, vmseq, placement, metrics, host_mem)
    /\ aggressiveness \in {3, 5}
    /\ max_total_migrations = DefaultMaxMigrations
    /\ anti_affinity_only = FALSE
    /\ arg_anti_affinity_only = FALSE
    /\ ignore_anti_affinity \in BOOLEAN
    /\ max_iterations = 0
    /\ FreshRun
    /\ run = 1
    /\ prev_plan = <<>>
    /\ GivenInventory

\* the hint the balancing pass computes for a source host on the evaluator's
\* map: the first problematic resource the host is a source candidate for
\* (<<>>: the host is no source candidate)
SourceHint(source) ==
    LET load_map == get_all_host_resource_percentages_map
        details == evaluate_imbalance(load_map, aggressiveness)
        problematic == ProblematicResources(details)
    IN SourceReasons(load_map[source], details, problematic, aggressiveness)

\* _find_better_host_for_balancing(vm, source, ...) with the arguments of the
\* pass and no move planned yet; the VM and the host returned are kept in
\* bal_planned (target NoHost: nothing returned)
FindBetterHost ==
    /\ pc = "applied"
    /\ \E vm \in Range(vms) :
         LET source == get_host_of_vm(vm)
             load_map == get_all_host_resource_percentages_map
             problematic == ProblematicResources(evaluate_imbalance(load_map, aggressiveness))
         IN /\ SourceHint(source) # <<>>
            /\ \E target \in {_find_better_host_for_balancing(vm, source, load_map[source],
                                 SourceHint(source)[1], problematic, load_map, <<>>,
                                 aggressiveness)} :
                 /\ bal_planned' = <<Move(vm, target, Balancing)>>
                 /\ outcome' = IF target = NoHost THEN "no_target" ELSE "target"
    /\ pc' = "done"
    /\ UNCHANGED <<snapshot, config, cmstate, aa_planned, migrations, pass_aggressiveness,
                   itervars, run, prev_plan, inventory, imbalance, _cache_percentage_lists>>

NextTarget == Apply \/ FindBetterHost

SpecTarget == InitTarget /\ [][NextTarget]_vars

(***************************************************************************)
(* Single passes with every aggressiveness level, so that the number of    *)
(* VMs selected on a source host is below the number of its VMs.           *)
(***************************************************************************)
InitSelect ==
    /\ InitSnapshot
    /\ aggressiveness \in 1..5
    /\ max_total_migrations = DefaultMaxMigrations
    /\ anti_affinity_only = FALSE
    /\ arg_anti_affinity_only = FALSE
    /\ ignore_anti_affinity \in BOOLEAN
    /\ max_iterations = 0
    /\ FreshRun
    /\ run = 1
    /\ prev_plan = <<>>
    /\ GivenInventory

SpecSelect == InitSelect /\ [][Next]_vars

(***************************************************************************)
(* get_preferred_host_for_vm called with lists of planned moves of other   *)
(* VMs between hosts of the snapshot.                                      *)
(***************************************************************************)
InitPreferred ==
    /\ \E pool \in NamePools, placement \in [1..NumVMs -> 1..NumHosts] :
         LET vmseq == SubSeq(pool, 1, NumVMs)
             placed == [v \in Range(vmseq) |->
                          placement[CHOOSE i \in 1..NumVMs : vmseq[i] = v]]
             metrics == [v \in Range(vmseq) |-> Usage(10, 10)]
         IN /\ hosts = HostSeq
            /\ vms = vmseq
            /\ vm_host = placed
            /\ vm_metrics = metrics
            /\ host_metrics = HostMetricsOf(HostSeq, vmseq, placed, metrics,
                                            [h \in 1..NumHosts |-> 50])
    /\ aggressiveness = DefaultAggressiveness
    /\ max_total_migrations = DefaultMaxMigrations
    /\ anti_affinity_only = FALSE
    /\ arg_anti_affinity_only = FALSE
    /\ ignore_anti_affinity = FALSE
    /\ max_iterations = 0
    /\ FreshRun
    /\ run = 1
    /\ prev_plan = <<>>
    /\ GivenInventory

\* the lists of planned moves handed over with the VM: none, one or two moves
\* of different VMs other than the VM itself, each to a host of the snapshot
PlannedLists(vm) ==
    LET moves == {Move(v, t, AntiAffinity) : v \in Range(vms) \ {vm}, t \in ActiveHosts}
    IN {<<>>} \cup {<<m>> : m \in moves}
       \cup {pair \in {<<m1, m2>> : m1 \in moves, m2 \in moves} : pair[1].vm # pair[2].vm}

\* get_preferred_host_for_vm(vm_to_move, planned_migrations_this_cycle); the
\* list is kept in aa_planned, the VM and the host returned in bal_planned
GetPreferredHost ==
    /\ pc = "applied"
    /\ \E vm \in Range(vms) :
         \E planned \in PlannedLists(vm) :
           /\ aa_planned' = planned
           /\ bal_planned' = <<Move(vm, get_preferred_host_for_vm(vm, planned), AntiAffinity)>>
    /\ outcome' = "preferred"
    /\ pc' = "done"
    /\ UNCHANGED <<snapshot, config, cmstate, migrations, pass_aggressiveness,
                   itervars, run, prev_plan, inventory, imbalance, _cache_percentage_lists>>

NextPreferred == Apply \/ GetPreferredHost

SpecPreferred == InitPreferred /\ [][NextPreferred]_vars

(***************************************************************************)
(* Inventories with a group whose names have fewer than three characters,  *)
(* alone or together with longer names of the same prefix.                 *)
(***************************************************************************)
\* a1 beside a10 and a11: one group, one name of fewer than three characters
MixedLengthPool == <<Name(A, <<"1">>), Name(A, <<"1", "0">>), Db, Name(A, <<"1", "1">>)>>

InitShortSnapshot ==
    \E pool \in {ShortPool, MixedLengthPool}, usage \in UsagePatterns :
      LET vmseq == SubSeq(pool, 1, NumVMs) IN
      \E placement \in [Range(vmseq) -> 1..NumHosts] :
        LET metrics == [v \in Range(vmseq) |->
                          usage[CHOOSE i \in 1..NumVMs : vmseq[i] = v]] IN
        /\ hosts = HostSeq
        /\ vms = vmseq
        /\ vm_host = placement
        /\ vm_metrics = metrics
        /\ host_metrics = HostMetricsOf(HostSeq, vmseq, placement, metrics,
                                        [h \in 1..NumHosts |-> 50])

\* the regular mode and the anti-affinity-only mode, as fdrs.py builds them
InitShort ==
    /\ InitShortSnapshot
    /\ aggressiveness = DefaultAggressiveness
    /\ max_total_migrations = DefaultMaxMigrations
    /\ anti_affinity_only \in BOOLEAN
    /\ arg_anti_affinity_only = anti_affinity_only
    /\ ignore_anti_affinity = FALSE
    /\ max_iterations = 0
    /\ FreshRun
    /\ run = 1
    /\ prev_plan = <<>>
    /\ GivenInventory

SpecShort == InitShort /\ [][Next]_vars

(***************************************************************************)
(* Properties.                                                             *)
(***************************************************************************)
\* the run made one single pass and returned its plan
SinglePassReturned == pc = "done" /\ outcome = "single"

\* the run went through plan_migrations_iterative and returned
IterativeReturned == pc = "done" /\ outcome \in {"converged", "no_moves", "exhausted"}

\* anti_affinity_only false and ignore_anti_affinity false
DefaultMode == ~anti_affinity_only /\ ~arg_anti_affinity_only /\ ~ignore_anti_affinity

\* no two entries of the sequence are equal
NoRepeat(s) == \A i, j \in 1..Len(s) : i # j => s[i] # s[j]

\* the VMs of the entries of a plan with reasons, in order
MovedVMs(migs) == [i \in 1..Len(migs) |-> migs[i].vm]

\* the host a VM runs on once the moves are applied to the snapshot in order
RECURSIVE HostAfter(_, _)
HostAfter(v, migs) ==
    IF migs = <<>> THEN vm_host[v]
    ELSE IF migs[Len(migs)].vm = v THEN migs[Len(migs)].target_host
    ELSE HostAfter(v, SubSeq(migs, 1, Len(migs) - 1))

\* per active host, the VMs of the group on it once the moves are applied
GroupCountsAfter(group, migs) ==
    [h \in ActiveHosts |-> Cardinality({v \in Range(group) : HostAfter(v, migs) = h})]

\* the usage of host h once the moves are applied to the snapshot in order: its
\* current usage, plus the usage of the VMs moved onto it, minus the usage of
\* the VMs moved away from it
RECURSIVE UsageAfter(_, _, _, _)
UsageAfter(h, migs, host_key, vm_key) ==
    IF migs = <<>> THEN host_metrics[h][host_key]
    ELSE LET n == Len(migs)
             before == SubSeq(migs, 1, n - 1)
             v == migs[n].vm
             arrives == IF migs[n].target_host = h THEN VmMetric(v, vm_key) ELSE 0
             leaves == IF HostAfter(v, before) = h THEN VmMetric(v, vm_key) ELSE 0
         IN UsageAfter(h, before, host_key, vm_key) + arrives - leaves

\* usage is at most limit percent of capacity
WithinPercent(usage, capacity, limit) == usage * 100 <= limit * capacity

\* CPU and memory of the target of the i-th move are within limit percent once
\* the moves 1..i are applied
TargetWithin(migs, i, limit) ==
    LET t == migs[i].target_host
        upto == SubSeq(migs, 1, i)
    IN /\ WithinPercent(UsageAfter(t, upto, "cpu_usage", "cpu_usage_abs"),
                        host_metrics[t].cpu_capacity, limit)
       /\ WithinPercent(UsageAfter(t, upto, "memory_usage", "memory_usage_abs"),
                        host_metrics[t].memory_capacity, limit)

\* C1: in the plan one call of plan_migrations returns, no VM appears in more
\* than one entry, whichever pass scheduled it and whatever the limit is.
C1_NoDuplicateVMInPlan ==
    SinglePassReturned => NoRepeat(MovedVMs(migrations))

\* a returned plan holding an anti-affinity move and a balancing move
C1_Witness ==
    /\ SinglePassReturned
    /\ \E i, j \in 1..Len(migrations) :
         migrations[i].reason = AntiAffinity /\ migrations[j].reason = Balancing

\* C2: every target of a plan returned by plan_migrations is a host of the
\* snapshot and is not the host the VM currently runs on.
C2_TargetValidity ==
    SinglePassReturned =>
        \A i \in 1..Len(migrations) :
            /\ migrations[i].target_host \in ActiveHosts
            /\ migrations[i].target_host # get_host_of_vm(migrations[i].vm)

\* a returned plan whose anti-affinity pass left a violator unmoved after moving
\* others of its group
C2_Witness ==
    /\ SinglePassReturned
    /\ Len(aa_planned) >= 2
    /\ Len(aa_planned) < Len(violations)
    /\ Len(migrations) >= 2

\* C3: in default mode, applying the returned plan to the snapshot increases the
\* spread max_count - min_count of no anti-affinity group (the VMs sharing the
\* digit-stripped name), whatever the VM names look like.
C3_SpreadNeverIncreases ==
    (SinglePassReturned /\ DefaultMode) =>
        \A k \in DOMAIN enforce_anti_affinity :
            Spread(GroupCountsAfter(enforce_anti_affinity[k], migrations))
                <= Spread(HostGroupCounts(enforce_anti_affinity[k]))

\* C4: for every balancing move of a returned plan, once the moves before it and
\* the move itself are applied, the target's CPU and memory usage are at most
\* 90 % of its capacity.
C4_HardFitRespected ==
    SinglePassReturned =>
        \A i \in 1..Len(migrations) :
            migrations[i].reason = Balancing => TargetWithin(migrations, i, HardLimit)

\* C5: in default mode, for every anti-affinity move of a returned plan, the
\* target's CPU and memory usage with the moves before it and the move itself
\* are at most 95 % of its capacity.
C5_SoftFitRespected ==
    (SinglePassReturned /\ DefaultMode) =>
        \A i \in 1..Len(migrations) :
            migrations[i].reason = AntiAffinity => TargetWithin(migrations, i, SoftLimit)

\* C6: when the anti-affinity moves followed by the balancing moves are more
\* than max_total_migrations, the returned plan has exactly max_total_migrations
\* entries, the first anti-affinity moves in order then the first balancing
\* moves in order; otherwise it is the untruncated plan.
C6_TruncationShape ==
    SinglePassReturned =>
        LET untruncated == aa_planned \o bal_planned
            kept_aa == IF Len(aa_planned) < max_total_migrations
                       THEN Len(aa_planned) ELSE max_total_migrations
        IN IF Len(untruncated) > max_total_migrations
           THEN /\ Len(migrations) = max_total_migrations
                /\ \A i \in 1..kept_aa : migrations[i] = aa_planned[i]
                /\ \A i \in 1..(max_total_migrations - kept_aa) :
                      migrations[kept_aa + i] = bal_planned[i]
           ELSE migrations = untruncated

\* a truncated plan that keeps every anti-affinity move and fills the remaining
\* slots with some but not all of the balancing moves
C6_Witness ==
    /\ SinglePassReturned
    /\ aa_planned # <<>>
    /\ Len(aa_planned) < max_total_migrations
    /\ Len(aa_planned) + Len(bal_planned) > max_total_migrations
    /\ Len(migrations) = max_total_migrations

\* C7: a second run on the same snapshot with the same configuration returns
\* the same ordered list of moves as the first, whatever order the violators
\* are enumerated in.
C7_SamePlanOnSecondRun ==
    (run > 1 /\ SinglePassReturned) => PlanTuples(migrations) = prev_plan

\* the first pass's plan, applied to the snapshot, leaves no violator and a
\* balanced cluster: the cluster can be brought to convergence within the budget
ConvergeableByFirstPass ==
    LET plan == plan_migrations(violations, arg_anti_affinity_only, aggressiveness).plan
        after == [h \in ActiveHosts |->
                    [cpu |-> Pct(UsageAfter(h, plan, "cpu_usage", "cpu_usage_abs"),
                                 host_metrics[h].cpu_capacity),
                     memory |-> Pct(UsageAfter(h, plan, "memory_usage", "memory_usage_abs"),
                                    host_metrics[h].memory_capacity),
                     disk |-> get_all_host_resource_percentages_map[h].disk,
                     network |-> get_all_host_resource_percentages_map[h].network]]
    IN /\ plan # <<>>
       /\ Len(plan) <= max_total_migrations
       /\ \A k \in DOMAIN enforce_anti_affinity :
             Spread(GroupCountsAfter(enforce_anti_affinity[k], plan)) <= 1
       /\ is_balanced(after, DefaultAggressiveness)
       /\ is_balanced(after, aggressiveness)

\* C8: when the cluster can be brought to zero violations and balance within the
\* budget and more than one iteration is allowed, plan_migrations_iterative
\* returns through its convergence exit.
C8_ConvergesWhenFeasible ==
    (IterativeReturned /\ max_iterations >= 2 /\ ConvergeableByFirstPass) =>
        outcome = "converged"

\* C9: in the accumulated plan plan_migrations_iterative returns, every VM
\* appears at most once.
C9_NoDuplicateVMAcrossIterations ==
    IterativeReturned =>
        NoRepeat([i \in 1..Len(all_migrations) |-> all_migrations[i][1]])

\* C10: in scenario S6 plan_migrations_iterative returns exactly three moves, one
\* VM from H1 to each of H2, H3 and H4, and returns through the convergence exit
\* of iteration 2.
C10_S6ThreeMoves ==
    IterativeReturned =>
        /\ Len(all_migrations) = 3
        /\ \A i \in 1..Len(all_migrations) : vm_host[all_migrations[i][1]] = 1
        /\ {all_migrations[i][2] : i \in 1..Len(all_migrations)} = {2, 3, 4}
        /\ outcome = "converged"
        /\ iteration = 1

\* max% - min% over the active hosts of one resource once the moves are applied
\* to the snapshot, in centi-percent
PctSpreadAfter(migs, host_key, vm_key, cap_key) ==
    LET pct == {Pct(UsageAfter(h, migs, host_key, vm_key), host_metrics[h][cap_key]) :
                    h \in ActiveHosts}
    IN SetMax(pct) - SetMin(pct)

\* C11: in default mode, for CPU and for memory, the spread max% - min% over the
\* hosts after the whole returned plan is applied is at most the spread before
\* the plan plus one percentage point.
C11_BalancingNonRegression ==
    (SinglePassReturned /\ DefaultMode) =>
        /\ PctSpreadAfter(migrations, "cpu_usage", "cpu_usage_abs", "cpu_capacity")
              <= PctSpreadAfter(<<>>, "cpu_usage", "cpu_usage_abs", "cpu_capacity") + 100
        /\ PctSpreadAfter(migrations, "memory_usage", "memory_usage_abs", "memory_capacity")
              <= PctSpreadAfter(<<>>, "memory_usage", "memory_usage_abs", "memory_capacity") + 100

\* C12: in anti_affinity_only mode with at least two hosts and no truncation,
\* applying the plan one call of plan_migrations returns leaves every group with
\* counts that differ by at most 1 between any two hosts, whatever the initial
\* placement; three VMs of a group on one of three hosts give two moves and
\* spread 0.
C12_AntiAffinityOnlySpread ==
    (/\ SinglePassReturned
     /\ anti_affinity_only /\ arg_anti_affinity_only
     /\ Len(hosts) >= 2
     /\ Len(aa_planned) <= max_total_migrations) =>
        /\ \A k \in DOMAIN enforce_anti_affinity :
              Spread(GroupCountsAfter(enforce_anti_affinity[k], migrations)) <= 1
        /\ (Len(hosts) = 3 /\ Len(vms) = 3 /\ Cardinality({vm_host[v] : v \in Range(vms)}) = 1) =>
              /\ Len(migrations) = 2
              /\ \A k \in DOMAIN enforce_anti_affinity :
                    Spread(GroupCountsAfter(enforce_anti_affinity[k], migrations)) = 0

\* C13: in scenario S2 the returned plan holds exactly one move, of db01 or db02
\* to H2, and leaves the group db with spread 1; and the anti-affinity pass plans
\* a move only for a group whose spread, with the moves planned before it in the
\* pass, is still above 1.
C13_S2SingleMoveToH2 ==
    SinglePassReturned =>
        /\ Len(migrations) = 1
        /\ \A i \in 1..Len(migrations) :
              /\ migrations[i].vm \in {S2VMs[1], S2VMs[2]}
              /\ migrations[i].target_host = 2
        /\ Spread(GroupCountsAfter(enforce_anti_affinity[Db], migrations)) = 1
        /\ \A i \in 1..Len(aa_planned) :
              Spread(GroupCountsAfter(enforce_anti_affinity[_get_vm_prefix(aa_planned[i].vm)],
                                      SubSeq(aa_planned, 1, i - 1))) > 1

\* max% - min% over the active hosts of one resource of the snapshot
SnapshotPctSpread(usage_key, cap_key) ==
    LET pct == {Pct(host_metrics[h][usage_key], host_metrics[h][cap_key]) : h \in ActiveHosts}
    IN SetMax(pct) - SetMin(pct)

\* the largest difference the aggressiveness level tolerates: 25 % at level 1,
\* 5 points less per level, in centi-percent
ToleratedDifference(aggr) == (30 - 5 * aggr) * 100

\* no group of the snapshot is in violation and every resource's max% - min% is
\* within the difference tolerated at the configured aggressiveness
BalancedWithoutViolation ==
    /\ calculate_anti_affinity_violations(enforce_anti_affinity) = {}
    /\ SnapshotPctSpread("cpu_usage", "cpu_capacity") <= ToleratedDifference(aggressiveness)
    /\ SnapshotPctSpread("memory_usage", "memory_capacity") <= ToleratedDifference(aggressiveness)
    /\ SnapshotPctSpread("disk_io_usage", "disk_io_capacity") <= ToleratedDifference(aggressiveness)
    /\ SnapshotPctSpread("network_io_usage", "network_capacity") <= ToleratedDifference(aggressiveness)

\* C14: on a snapshot without anti-affinity violation whose hosts differ, for
\* every resource, by at most the threshold of the configured aggressiveness,
\* plan_migrations returns an empty plan.
C14_BalancedSnapshotEmptyPlan ==
    (SinglePassReturned /\ BalancedWithoutViolation) => migrations = <<>>

\* an empty plan returned in default mode for hosts whose CPU differs, within the
\* threshold
C14_Witness ==
    /\ SinglePassReturned
    /\ DefaultMode
    /\ BalancedWithoutViolation
    /\ SnapshotPctSpread("cpu_usage", "cpu_capacity") > 0
    /\ migrations = <<>>

C16_MigrationLimitRespected ==
    /\ SinglePassReturned => Len(migrations) <= max_total_migrations
    /\ IterativeReturned => Len(all_migrations) <= max_total_migrations

C18_MissingMetricsAsZero ==
    (run = MaxRuns /\ SinglePassReturned) => (PlanTuples(migrations) = prev_plan)


RECURSIVE AppendedUnchecked(_, _)
\* the violators of viol, in order, each with the host get_preferred_host_for_vm
\* returns given the pairs before it, left out when it returns none
AppendedUnchecked(viol, planned) ==
    IF viol = <<>> THEN planned
    ELSE LET target == get_preferred_host_for_vm(viol[1], planned)
         IN IF target # NoHost /\ \A i \in 1..Len(planned) : planned[i].vm # viol[1]
            THEN AppendedUnchecked(Tail(viol),
                                   Append(planned, Move(viol[1], target, AntiAffinity)))
            ELSE AppendedUnchecked(Tail(viol), planned)

\* C19: a pass called with anti_affinity_only=True, on a planner built with or
\* without the flag, plans a move for every violator that has a preferred host,
\* whatever the load of the target, and plans no balancing move.
C19_AntiAffinityOnlyUnchecked ==
    (SinglePassReturned /\ arg_anti_affinity_only) =>
        /\ bal_planned = <<>>
        /\ PlanTuples(aa_planned) = PlanTuples(AppendedUnchecked(violations, <<>>))


\* C20: once the snapshot is built, every VM of its VM set references a host of
\* its host set, whatever the inventory: hosts in any connection state, VMs
\* powered on or off, a cluster selected or not.
C20_EveryVMOnSnapshotHost ==
    pc # "inventory" => \A i \in 1..Len(vms) : get_host_of_vm(vms[i]) \in Range(hosts)


\* the VMs of the snapshot with the anti-affinity key of v
SameKey(v) == {w \in Range(vms) : _get_vm_prefix(w) = _get_vm_prefix(v)}

\* the number of VMs with the key of v placed on host h
KeyCountOn(v, h) == Cardinality({w \in SameKey(v) : vm_host[w] = h})

\* the violators as the rule defines them: counts taken over every active host,
\* hosts without a VM of the group included
ExpectedViolators ==
    IF Cardinality(ActiveHosts) < 2 THEN {}
    ELSE {v \in Range(vms) :
            /\ vm_host[v] \in ActiveHosts
            /\ \E lo \in ActiveHosts : KeyCountOn(v, vm_host[v]) - KeyCountOn(v, lo) > 1
            /\ \A h \in ActiveHosts : KeyCountOn(v, h) <= KeyCountOn(v, vm_host[v])}

\* C21: the violators computed by calculate_anti_affinity_violations are exactly
\* the VMs on a host holding the maximum count of their group, for the groups
\* whose maximum and minimum count over all active hosts differ by more than 1;
\* each VM is listed once; with fewer than two active hosts there is none.
C21_ViolatorsExact ==
    pc \in {"applied", "done"} =>
        /\ Range(violations) = ExpectedViolators
        /\ NoRepeat(violations)
        /\ (Len(hosts) < 2 => violations = <<>>)

\* a group of two VMs on one host next to an active host without any
C21_Witness ==
    /\ pc = "applied"
    /\ Len(violations) >= 2
    /\ \E h \in ActiveHosts : \A v \in Range(violations) : vm_host[v] # h


\* the group counts the rule works on: per active host, the VMs with the key of
\* vm placed there, less those already planned away, plus those planned onto it
RuleCounts(vm, planned) ==
    [h \in ActiveHosts |->
        LET moved == {i \in 1..Len(planned) : planned[i].vm \in SameKey(vm)}
            n == KeyCountOn(vm, h)
                 - Cardinality({i \in moved : vm_host[planned[i].vm] = h})
                 + Cardinality({i \in moved : planned[i].target_host = h})
        IN IF n < 0 THEN 0 ELSE n]

\* the lowest count first, then the smallest host name
RulePick(S, counts) ==
    CHOOSE t \in S : \A u \in S : counts[t] < counts[u] \/ (counts[t] = counts[u] /\ t <= u)

\* the two-stage rule
TwoStageRule(vm, planned) ==
    LET counts == RuleCounts(vm, planned)
        source == vm_host[vm]
        after(t) == [h \in ActiveHosts |->
                        IF h = t THEN counts[h] + 1
                        ELSE IF h = source THEN counts[h] - 1 ELSE counts[h]]
        cands == ActiveHosts \ {source}
        stage1 == {t \in cands : \A h, k \in ActiveHosts : after(t)[h] - after(t)[k] <= 1}
        stage2 == {t \in cands : counts[t] < counts[source]}
    IN IF stage1 # {} THEN RulePick(stage1, counts)
       ELSE IF stage2 # {} THEN RulePick(stage2, counts)
       ELSE NoHost

RECURSIVE RulePlan(_, _)
\* the violators in order, each with the host the two-stage rule gives it after
\* the pairs before it, left out when the rule gives none
RulePlan(viol, planned) ==
    IF viol = <<>> THEN planned
    ELSE LET target == TwoStageRule(viol[1], planned)
         IN RulePlan(Tail(viol),
                     IF target # NoHost
                     THEN Append(planned, Move(viol[1], target, AntiAffinity))
                     ELSE planned)

\* C22: in the anti-affinity-only pass, where every violator with a preferred
\* host is planned, the target of each move is the host of the two-stage rule on
\* the adjusted group counts, and a violator is left out exactly when neither
\* stage has a candidate.
C22_TwoStageRule ==
    (SinglePassReturned /\ anti_affinity_only) =>
        PlanTuples(aa_planned) = PlanTuples(RulePlan(violations, <<>>))


\* the percentage of host h's usage of a resource, in hundredths of a percent
HostPct(h, usage_key, cap_key) ==
    IF host_metrics[h][cap_key] > 0
    THEN (host_metrics[h][usage_key] * 10000) \div host_metrics[h][cap_key] ELSE 0

\* the threshold of a level, in hundredths of a percent: 25, 20, 15, 10, 5 for
\* levels 1 to 5, and 15 for any other level
LevelThreshold(aggr) == IF aggr \in 1..5 THEN (30 - 5 * aggr) * 100 ELSE 1500

\* max - min of a resource over the hosts exceeds the threshold of the level
OverThreshold(usage_key, cap_key) ==
    \E hi, lo \in ActiveHosts :
        HostPct(hi, usage_key, cap_key) - HostPct(lo, usage_key, cap_key)
            > LevelThreshold(aggressiveness)

\* C23: the report of evaluate_imbalance marks a resource imbalanced exactly when
\* there are two hosts or more and its max - min exceeds the threshold of the
\* level, the same for the four resources; is_balanced is true exactly when
\* no resource of the report is marked.
C23_ImbalanceIffOverThreshold ==
    imbalance # <<>> =>
        /\ imbalance["cpu"].is_imbalanced =
              (Len(hosts) >= 2 /\ OverThreshold("cpu_usage", "cpu_capacity"))
        /\ imbalance["memory"].is_imbalanced =
              (Len(hosts) >= 2 /\ OverThreshold("memory_usage", "memory_capacity"))
        /\ imbalance["disk"].is_imbalanced =
              (Len(hosts) >= 2 /\ OverThreshold("disk_io_usage", "disk_io_capacity"))
        /\ imbalance["network"].is_imbalanced =
              (Len(hosts) >= 2 /\ OverThreshold("network_io_usage", "network_capacity"))
        /\ is_balanced(get_all_host_resource_percentages_map, aggressiveness) =
              (\A res \in Range(ResourceOrder) : ~imbalance[res].is_imbalanced)

\* a difference of exactly the threshold of an unknown level, reported balanced
C23_Witness ==
    /\ imbalance # <<>>
    /\ aggressiveness = 6
    /\ Len(hosts) = NumHosts
    /\ imbalance["disk"].current_diff = 1500
    /\ ~imbalance["disk"].is_imbalanced


\* the anti-affinity key of a name: the name without its trailing digits, the
\* whole name when nothing is left
ExpectedKey(name) ==
    LET n == CHOOSE k \in 0..Len(name) :
                 /\ k = 0 \/ name[k] \notin Digits
                 /\ \A j \in (k + 1)..Len(name) : name[j] \in Digits
    IN IF n = 0 THEN name ELSE SubSeq(name, 1, n)

\* C24: grouping, target selection and the safety check of the balancing pass
\* put every VM in the group keyed by its name without trailing digits,
\* however many digits the name ends in.
C24_SameGroupEverywhere ==
    pc # "start" =>
        \A v \in Range(vms) :
            /\ ExpectedKey(v) \in DOMAIN vm_distribution
            /\ v \in Range(vm_distribution[ExpectedKey(v)])
            /\ _get_vm_prefix(v) = ExpectedKey(v)
            /\ SafetyCheckPrefix(v) = ExpectedKey(v)


\* max(1, floor(a / multiplier^(i-1))) for the multiplier 1.05 = 21/20
DecayedAggressiveness(i, a) ==
    LET q == (a * 20^(i - 1)) \div 21^(i - 1) IN IF q < 1 THEN 1 ELSE q

\* C25: the pass of iteration 1 runs with the configured aggressiveness a, the
\* pass of iteration i >= 2 with max(1, floor(a / multiplier^(i-1))).
C25_AggressivenessDecay ==
    (iteration >= 1 /\ pass_aggressiveness # 0) =>
        pass_aggressiveness = DecayedAggressiveness(iteration, aggressiveness)


C27_ConvergenceExitSound ==
    [][(pc \in {"applied", "iterating"} /\ pc' = "done" /\ outcome' = "converged")
        => /\ calculate_anti_affinity_violations(vm_distribution) = {}
           /\ is_balanced(get_all_host_resource_percentages_map, aggressiveness)
           /\ (iteration = 0 =>
                 \A viol \in PassViolations :
                    plan_migrations(viol, arg_anti_affinity_only, aggressiveness).bal = <<>>)]_vars


\* the moves of the pass that precede its k-th balancing move
PlannedBefore(aa, bal, k) == aa \o SubSeq(bal, 1, k - 1)

\* the host is a source candidate on the load map for the given aggressiveness
IsSourceCandidate(h, load_map, aggr) ==
    LET details == evaluate_imbalance(load_map, aggr)
        problematic == ProblematicResources(details)
    IN /\ problematic # <<>>
       /\ SourceReasons(load_map[h], details, problematic, aggr) # <<>>

\* C28: every balancing move of a pass is decided on the state that includes the
\* moves accepted before it: its source is a source candidate on the loads
\* simulated after those moves, and its target is anti-affinity safe against the
\* list of those moves
C28_AcceptedMovesIncorporated ==
    [][(pc = "applied" /\ pc' = "done" /\ outcome' = "single")
        => \A k \in 1..Len(bal_planned') :
             LET before == PlannedBefore(aa_planned', bal_planned', k)
                 move == bal_planned'[k]
             IN /\ IsSourceCandidate(get_host_of_vm(move.vm), DecisionLoadMap(before),
                                     aggressiveness)
                /\ ignore_anti_affinity
                     \/ _is_anti_affinity_safe(move.vm, move.target_host, before)]_vars


\* current_absolute_host_loads before the loop over the moves
CurrentAbsoluteHostLoads ==
    Tabulate([h \in ActiveHosts |->
        [cpu_usage_abs |-> HostMetricGet(h, "cpu_usage", 0),
         mem_usage_abs |-> HostMetricGet(h, "memory_usage", 0),
         cpu_cap_abs |-> HostMetricGet(h, "cpu_capacity", 1),
         mem_cap_abs |-> HostMetricGet(h, "memory_capacity", 1)]], ActiveHosts)

\* the usage the moves bring to the host less the usage they take from it
NetArrival(migs, h, key) ==
    SeqSum([i \in 1..Len(migs) |->
        (IF migs[i].target_host = h THEN VmMetric(migs[i].vm, key) ELSE 0)
        - (IF get_host_of_vm(migs[i].vm) = h THEN VmMetric(migs[i].vm, key) ELSE 0)])

\* the hosts that are the source or the target of a move
TouchedHosts(migs) ==
    {migs[i].target_host : i \in 1..Len(migs)}
    \cup {get_host_of_vm(migs[i].vm) : i \in 1..Len(migs)}

SimulationReturned == pc = "done" /\ outcome = "simulated"

\* C29: for moves between hosts of the snapshot the simulation takes each moved
\* VM's CPU and memory from its source and adds them to its target, so the
\* cluster totals of absolute CPU and memory are unchanged; an untouched host
\* keeps its CPU and memory percentages, every host its disk and network
\* percentages and its capacities.
C29_SimulationFrame ==
    SimulationReturned =>
        LET start == CurrentAbsoluteHostLoads
            sim == SimulateAbsoluteLoads(start, migrations)
            result == _get_simulated_load_data_after_migrations(migrations)
            orig == get_all_host_resource_percentages_map
        IN /\ \A h \in ActiveHosts :
                /\ sim[h].cpu_usage_abs
                      = start[h].cpu_usage_abs + NetArrival(migrations, h, "cpu_usage_abs")
                /\ sim[h].mem_usage_abs
                      = start[h].mem_usage_abs + NetArrival(migrations, h, "memory_usage_abs")
                /\ sim[h].cpu_cap_abs = start[h].cpu_cap_abs
                /\ sim[h].mem_cap_abs = start[h].mem_cap_abs
                /\ result[h].cpu = Pct(sim[h].cpu_usage_abs, host_metrics[h].cpu_capacity)
                /\ result[h].memory = Pct(sim[h].mem_usage_abs, host_metrics[h].memory_capacity)
                /\ result[h].disk = orig[h].disk
                /\ result[h].network = orig[h].network
           /\ SumOver([h \in ActiveHosts |-> sim[h].cpu_usage_abs], ActiveHosts)
                 = SumOver([h \in ActiveHosts |-> start[h].cpu_usage_abs], ActiveHosts)
           /\ SumOver([h \in ActiveHosts |-> sim[h].mem_usage_abs], ActiveHosts)
                 = SumOver([h \in ActiveHosts |-> start[h].mem_usage_abs], ActiveHosts)
           /\ \A h \in ActiveHosts \ TouchedHosts(migrations) :
                 result[h].cpu = orig[h].cpu /\ result[h].memory = orig[h].memory

\* two different VMs moved between three different hosts of different
\* capacities, one host left untouched with VMs that use disk and network on it
C29_Witness ==
    /\ SimulationReturned
    /\ Len(migrations) = 2
    /\ migrations[1].vm # migrations[2].vm
    /\ \A i \in 1..2 : get_host_of_vm(migrations[i].vm) # migrations[i].target_host
    /\ ActiveHosts \ TouchedHosts(migrations) # {}
    /\ \E h \in ActiveHosts \ TouchedHosts(migrations) :
          get_all_host_resource_percentages_map[h].disk > 0
    /\ host_metrics[1].cpu_capacity # host_metrics[2].cpu_capacity


\* a step of plan_migrations_iterative that evaluates the balance: an iteration
\* of the loop (its convergence check) or the final state check
BalanceEvaluatedByLoop ==
    /\ pc \in {"applied", "iterating"}
    /\ iteration' # iteration \/ pc' = "done"

\* C30: no balance evaluation of the iterative loop, the convergence check of
\* iteration 1 included, reads a memoized quartet computed before the latest
\* change of the host data: when the loop evaluates, the cache is empty or holds
\* the quartet of the current host data.
C30_NoStaleQuartetRead ==
    [][BalanceEvaluatedByLoop
        => \/ _cache_percentage_lists = NoCache
           \/ _cache_percentage_lists = get_all_host_resource_percentages_map]_vars


\* the ping-pong guard as claimed: the target's usage is below the source's by at
\* least a third of the threshold
BelowByAtLeastThird(target_usage, source_usage, threshold) ==
    3 * (source_usage - target_usage) >= threshold

\* the hosts the claim lets through, in all_hosts order
ClaimedTargets(vm, source, hint, load_map) ==
    SelectSeq2(hosts, {t \in ActiveHosts :
        /\ t # source
        /\ _would_fit_on_host(vm, t)
        /\ ignore_anti_affinity \/ _is_anti_affinity_safe(vm, t, <<>>)
        /\ BelowByAtLeastThird(load_map[t][hint], load_map[source][hint],
                               get_thresholds(aggressiveness))})

FindBetterHostReturned == pc = "done" /\ outcome \in {"target", "no_target"}

\* C31: _find_better_host_for_balancing returns the first host of the highest
\* score among the hosts other than the source that pass the hard fit check,
\* the anti-affinity safety check (unless ignored) and the ping-pong guard (the
\* target's usage below the source's by at least a third of the threshold), and
\* nothing when no host passes.
C31_BestScoringTarget ==
    FindBetterHostReturned =>
        LET vm == bal_planned[1].vm
            source == get_host_of_vm(vm)
            load_map == get_all_host_resource_percentages_map
            problematic == ProblematicResources(evaluate_imbalance(load_map, aggressiveness))
        IN bal_planned[1].target_host
             = FirstBestScore(ClaimedTargets(vm, source, SourceHint(source)[1], load_map),
                              load_map, problematic, NoHost)


\* the VMs the anti-affinity step of the last pass planned
AntiAffinityPlannedVMs == {aa_planned[i].vm : i \in 1..Len(aa_planned)}

\* the positions in bal_planned of the moves off the host
MovesOff(h) == {i \in 1..Len(bal_planned) : get_host_of_vm(bal_planned[i].vm) = h}

\* the hint of the last pass for a source host: the first problematic resource
\* of the decision map the host is a source candidate for
PassHint(h) ==
    LET load_map == DecisionLoadMap(aa_planned)
        details == evaluate_imbalance(load_map, pass_aggressiveness)
        problematic == ProblematicResources(details)
    IN SourceReasons(load_map[h], details, problematic, pass_aggressiveness)[1]

\* the usage the claim ranks by: CPU or memory for hint cpu/memory, their sum
\* otherwise
HintUsage(vm, hint) ==
    IF hint = "cpu" THEN vm_metrics[vm].cpu_usage_abs
    ELSE IF hint = "memory" THEN vm_metrics[vm].memory_usage_abs
    ELSE vm_metrics[vm].cpu_usage_abs + vm_metrics[vm].memory_usage_abs

PreferredHostReturned == pc = "done" /\ outcome = "preferred"

\* the planned moves of VMs of the group
GroupMoves(planned, vm_prefix) ==
    {i \in 1..Len(planned) : _get_vm_prefix(planned[i].vm) = vm_prefix}

\* the counts of the group with every planned move of a group VM taken from its
\* host and added to its target, nothing clamped
CountsWithoutClamp(base, planned, vm_prefix) ==
    [h \in DOMAIN base |->
        base[h]
        - Cardinality({i \in GroupMoves(planned, vm_prefix) : get_host_of_vm(planned[i].vm) = h})
        + Cardinality({i \in GroupMoves(planned, vm_prefix) : planned[i].target_host = h})]

\* C33: for planned moves of distinct VMs other than the VM being placed,
\* between active hosts, the adjusted group counts are all >= 0, they sum to the
\* number of group VMs on active hosts, the count of the placed VM's host is
\* >= 1, and no count is clamped to 0.
C33_AdjustedCountsConsistent ==
    PreferredHostReturned =>
        LET vm == bal_planned[1].vm
            vm_prefix == _get_vm_prefix(vm)
            group == vm_distribution[vm_prefix]
            base == HostGroupCounts(group)
            adjusted == AdjustCounts(base, aa_planned, vm_prefix)
        IN /\ \A h \in ActiveHosts : adjusted[h] >= 0
           /\ SumOver(adjusted, ActiveHosts)
                 = Cardinality({v \in Range(group) : get_host_of_vm(v) \in ActiveHosts})
           /\ adjusted[get_host_of_vm(vm)] >= 1
           /\ \A h \in ActiveHosts :
                 adjusted[h] = CountsWithoutClamp(base, aa_planned, vm_prefix)[h]

\* two VMs of the group planned off the host of the VM being placed
C33_Witness ==
    /\ PreferredHostReturned
    /\ Len(aa_planned) = 2
    /\ \A i \in 1..2 :
          /\ _get_vm_prefix(aa_planned[i].vm) = _get_vm_prefix(bal_planned[1].vm)
          /\ get_host_of_vm(aa_planned[i].vm) = get_host_of_vm(bal_planned[1].vm)
          /\ aa_planned[i].target_host # get_host_of_vm(bal_planned[1].vm)
    /\ bal_planned[1].target_host # NoHost


\* the position of the move in the list it was planned into
PlannedPosition(planned, move) == CHOOSE k \in 1..Len(planned) : planned[k] = move

\* the list the moves of the reason's kind were planned into
PlannedListOf(reason) == IF reason = AntiAffinity THEN aa_planned ELSE bal_planned

\* C34: in the plan plan_migrations returns, truncated or not, every
\* anti-affinity move comes before every balancing move, and two moves of the
\* same kind come in the order in which they were planned.
C34_AntiAffinityFirstInPlannedOrder ==
    SinglePassReturned =>
        \A i \in 1..Len(migrations) :
            /\ migrations[i] \in Range(PlannedListOf(migrations[i].reason))
            /\ \A j \in 1..Len(migrations) :
                  i < j =>
                     /\ migrations[i].reason = Balancing => migrations[j].reason = Balancing
                     /\ migrations[i].reason = migrations[j].reason =>
                           PlannedPosition(PlannedListOf(migrations[i].reason), migrations[i])
                             < PlannedPosition(PlannedListOf(migrations[j].reason), migrations[j])

\* a returned plan with two anti-affinity moves followed by a balancing move
C34_Witness ==
    /\ SinglePassReturned
    /\ Len(migrations) >= 3
    /\ migrations[1].reason = AntiAffinity
    /\ migrations[2].reason = AntiAffinity
    /\ migrations[Len(migrations)].reason = Balancing


\* the violating VMs whose names have fewer than three characters
ShortViolators == {v \in Range(violations) : Len(v) < 3}

\* a stage of the rule has a host for the VM, whatever was planned before it
StageHostExists(v) == \E k \in 0..Len(aa_planned) : TwoStageRule(v, SubSeq(aa_planned, 1, k)) # NoHost

\* no anti-affinity move is planned for the VM and no host is preferred for it
NeverGivenMove(v) ==
    /\ \A i \in 1..Len(aa_planned) : aa_planned[i].vm # v
    /\ \A k \in 0..Len(aa_planned) : get_preferred_host_for_vm(v, SubSeq(aa_planned, 1, k)) = NoHost

\* the group of the VM is still spread by more than one after the planned moves
GroupUnresolved(v) == Spread(RuleCounts(v, aa_planned)) > 1

\* C35 as stated: a violating VM whose name has fewer than three characters is
\* never given an anti-affinity move, no host being preferred for it even when
\* a stage has one, and the violation of its group is left unresolved by the
\* anti-affinity pass.
C35_ShortNameLeftUnresolved ==
    SinglePassReturned =>
        \A v \in ShortViolators : NeverGivenMove(v) /\ GroupUnresolved(v)

\* C35 as amended: a violating VM whose name has fewer than three characters is
\* never given an anti-affinity move, no host being preferred for it even when
\* a stage has one; the violation of its group is left unresolved by the
\* anti-affinity pass when every violating VM of the group has such a name.
C35_ShortNameNeverMoved ==
    SinglePassReturned =>
        \A v \in ShortViolators :
            /\ NeverGivenMove(v)
            /\ (Range(violations) \cap SameKey(v)) \subseteq ShortViolators => GroupUnresolved(v)

\* a returned pass with a violating VM of a short name for which a stage has a
\* host, in a group whose violators all have short names
C35_Witness ==
    /\ SinglePassReturned
    /\ \E v \in ShortViolators :
          /\ StageHostExists(v)
          /\ (Range(violations) \cap SameKey(v)) \subseteq ShortViolators

=============================================================================
